---- MODULE Spec2Model ----
(***************************************************************************)
(* Live trivia game engines of the flashcard application.                  *)
(*                                                                         *)
(*   routes/games.py  - multiplayer engine, GameState objects kept in      *)
(*                      ACTIVE_GAMES, one websocket handler per player     *)
(*   routes/cards.py  - LiveGame objects kept in active_games, the solo    *)
(*                      HTTP routes, the multiplayer HTTP routes and the   *)
(*                      websocket handler, score_boards, ConnectionManager *)
(*                                                                         *)
(* One session is observed at a time: a behaviour creates one session, in  *)
(* either engine, and follows it.  The two engines share no state except   *)
(* the card storage, which they only read.                                 *)
(*                                                                         *)
(* Text is a sequence of one-character strings.  Points are counted in     *)
(* tenths of a point so that 2.5 and 5.0 stay integers.                    *)
(***************************************************************************)
EXTENDS Integers, Sequences, FiniteSets, TLC

\* ------------------------------------------------------------------------
\* Bounds of the model
\* ------------------------------------------------------------------------

\* number of cards the card set holds in storage when the session is created
NumCards == 2

\* answers a session of cards.py scores in all (nothing in cards.py bounds them)
MaxAnswers == 2

\* longest answer text, and longest reference text, the graders are applied to
MaxAnswerLen == 3

MaxReferenceLen == 5

\* ------------------------------------------------------------------------
\* Program constants
\* ------------------------------------------------------------------------

\* games.py create_game: min(max_questions, len(game_set.cards), 50)
HardCap == 50

\* POINTS_CORRECT = 5.0, in tenths of a point
POINTS_CORRECT == 50

\* POINTS_HALF = 2.5, in tenths of a point
POINTS_HALF == 25

\* LiveGame.current_card_index default
InitialCardIndex == -1

\* ------------------------------------------------------------------------
\* The environment: users, client sockets, storage, inputs
\* ------------------------------------------------------------------------

Users == {"alice", "bob"}

\* the users who create sessions
Creators == {"alice"}

\* client websockets, one per user
Sockets == {"a1", "b1"}

\* a third user, who takes part when the connections of a session are studied
Peers == Users \cup {"carol"}

\* every client websocket there is: alice can open a second one, carol has one
AllSockets == Sockets \cup {"a2", "c1"}

\* the username (client_id) in the path the socket was opened on
UserOf(s) ==
  CASE s \in {"a1", "a2"} -> "alice"
    [] s = "b1"           -> "bob"
    [] OTHER              -> "carol"

\* the sockets whose client can go away without closing
Droppable == {"b1"}

\* card ids of the one card set in storage, and the id of that set
CardIds == 1..NumCards

\* the id of the card set that exists in storage; SetIds also holds an unknown id
TheSet == 1

SetIds == {TheSet, TheSet + 1}

\* Python None, for an Optional[Card] and for a failed storage lookup
None == 0

\* the identifiers the two engines can draw
GameIdsOfGames == {"1A2B3C4D"}

GameIdsOfCards == {"123456"}

\* question counts a creation form can carry
QuestionCounts == {-1, 0, 1, 2, 100}

\* answer texts a client can submit (payload.get('answer', '') is "" when absent)
Answers ==
  { <<" ">>, <<"A", "!">>, <<"a", " ", "b">>, <<"x">> }

\* Card.back of a card: the reference answer
Back(c) ==
  CASE c = 1 -> <<"a">>
    [] c = 2 -> <<"a", " ", "b">>
    [] OTHER -> <<"!">>

\* ------------------------------------------------------------------------
\* Text helpers (Python str / re semantics on the model's alphabet)
\* ------------------------------------------------------------------------

Min(a, b) == IF a <= b THEN a ELSE b

Range(f) == { f[x] : x \in DOMAIN f }

IsSpace(c) == c \in {" ", "\t"}

IsWordChar(c) == c \in {"a", "b", "x", "A", "B", "X", "_", "1"}

\* str.lower() on one character
LowerChar(c) ==
  CASE c = "A" -> "a"
    [] c = "B" -> "b"
    [] c = "X" -> "x"
    [] OTHER   -> c

\* str.strip(): drop leading and trailing whitespace
RECURSIVE LStrip(_)
LStrip(t) ==
  IF t # <<>> /\ IsSpace(Head(t)) THEN LStrip(Tail(t)) ELSE t

RECURSIVE RStrip(_)
RStrip(t) ==
  IF t # <<>> /\ IsSpace(t[Len(t)]) THEN RStrip(SubSeq(t, 1, Len(t) - 1)) ELSE t

Strip(t) == RStrip(LStrip(t))

\* re.sub(r'\s+', ' ', text): every run of whitespace becomes one space
RECURSIVE CollapseSpaces(_)
CollapseSpaces(t) ==
  IF t = <<>> THEN <<>>
  ELSE IF IsSpace(Head(t))
       THEN <<" ">> \o CollapseSpaces(LStrip(Tail(t)))
       ELSE <<Head(t)>> \o CollapseSpaces(Tail(t))

\* str.split(): the whitespace-separated words, as a set
RECURSIVE FirstWord(_)
FirstWord(t) ==
  IF t = <<>> \/ IsSpace(Head(t)) THEN <<>> ELSE <<Head(t)>> \o FirstWord(Tail(t))

RECURSIVE SplitWords(_)
SplitWords(t) ==
  LET u == LStrip(t) IN
  IF u = <<>> THEN {}
  ELSE LET w == FirstWord(u) IN {w} \cup SplitWords(SubSeq(u, Len(w) + 1, Len(u)))

\* ------------------------------------------------------------------------
\* games.py: grading
\* ------------------------------------------------------------------------

\* normalize_text: lower(), drop what is not \w, \s or '-', collapse, strip
games_normalize_text(text) ==
  LET lowered == [i \in 1..Len(text) |-> LowerChar(text[i])]
      kept    == SelectSeq(lowered, LAMBDA c : IsWordChar(c) \/ IsSpace(c) \/ c = "-")
  IN  Strip(CollapseSpaces(kept))

\* a grader without the test of line 86 on the share of matching words
games_grade_answer_any_match(user_answer, correct_answer) ==
  LET normalized_user    == games_normalize_text(user_answer)
      normalized_correct == games_normalize_text(correct_answer)
      correct_words      == SplitWords(normalized_correct)
      user_words         == SplitWords(normalized_user)
      matching_words     == correct_words \cap user_words
  IN  IF normalized_user = normalized_correct THEN "correct"
      ELSE IF correct_words = {} THEN "wrong"
      ELSE IF Cardinality(matching_words) > 0 THEN "half"
      ELSE "wrong"

games_grade_answer(user_answer, correct_answer) ==
  LET normalized_user    == games_normalize_text(user_answer)
      normalized_correct == games_normalize_text(correct_answer)
      correct_words      == SplitWords(normalized_correct)
      user_words         == SplitWords(normalized_user)
      matching_words     == correct_words \cap user_words
  IN  IF normalized_user = normalized_correct THEN "correct"
      ELSE IF correct_words = {} THEN "wrong"
      ELSE IF Cardinality(matching_words) > 0
              /\ 2 * Cardinality(matching_words) >= Cardinality(correct_words)
           THEN "half"
           ELSE "wrong"

\* ------------------------------------------------------------------------
\* cards.py: grading (a second copy of the same two functions)
\* ------------------------------------------------------------------------

cards_normalize_text(text) ==
  LET lowered == [i \in 1..Len(text) |-> LowerChar(text[i])]
      kept    == SelectSeq(lowered, LAMBDA c : IsWordChar(c) \/ IsSpace(c) \/ c = "-")
  IN  Strip(CollapseSpaces(kept))

cards_grade_answer(user_answer, correct_answer) ==
  LET normalized_user    == cards_normalize_text(user_answer)
      normalized_correct == cards_normalize_text(correct_answer)
      correct_words      == SplitWords(normalized_correct)
      user_words         == SplitWords(normalized_user)
      matching_words     == correct_words \cap user_words
  IN  IF normalized_user = normalized_correct THEN "correct"
      ELSE IF correct_words = {} THEN "wrong"
      ELSE IF Cardinality(matching_words) > 0
              /\ 2 * Cardinality(matching_words) >= Cardinality(correct_words)
           THEN "half"
           ELSE "wrong"

\* ------------------------------------------------------------------------
\* State
\* ------------------------------------------------------------------------

VARIABLES
  db_cards,       \* storage: the ids of the set's cards that still exist
  ACTIVE_GAMES,   \* games.py: game_id -> GameState
  active_games,   \* cards.py: game_id -> LiveGame
  score_boards,   \* cards.py: game_id -> (username -> entry)
  manager,        \* cards.py: ConnectionManager.active_connections,
                  \*   game_id -> the dict's items in insertion order
  ws,             \* per client socket: closed | open | dropped | dead
  pc,             \* per client socket: where its handler is suspended
  last,           \* the operation that ran last, what it emitted and replied
  delivered,      \* per client socket: the messages that operation delivered to it
  graded,         \* the results the solo answer route has returned so far:
                  \*   how many 'correct', how many 'half'
  fanout          \* the broadcast that is suspended between two of its sends

vars ==
  << db_cards, ACTIVE_GAMES, active_games, score_boards, manager, ws, pc,
     last, delivered, graded, fanout >>

gamesVars == << ACTIVE_GAMES >>

cardsVars == << active_games, score_boards, manager >>

\* no session has been created yet, in either engine
NoSession == DOMAIN ACTIVE_GAMES = {} /\ DOMAIN active_games = {}

Op(op, by, arg, emitted, reply) ==
  [op |-> op, by |-> by, arg |-> arg, emitted |-> emitted, reply |-> reply]

\* a step whose new_card message carries the field "question_number"
\* (games.py line 316, cards.py line 654)
NewCard(op, question_number) == op @@ [question_number |-> question_number]

NothingDelivered == [s \in AllSockets |-> <<>>]

NothingGraded == [correct |-> 0, half |-> 0]

\* a broadcast in progress: the engine and the handler (socket) that runs it,
\* the game, for games.py the sockets of connections_to_send not yet sent to,
\* for cards.py the dict's items when the loop began and the number of values
\* the iterator has returned, the sockets registered when it began and the
\* sockets the message has reached
FanOut(engine, by, game, todo, entries, pos, began, reached) ==
  [ engine |-> engine, by |-> by, game |-> game, todo |-> todo, entries |-> entries,
    pos |-> pos, began |-> began, reached |-> reached ]

\* no broadcast is suspended
NoFanOut == FanOut("idle", "", "", {}, <<>>, 0, {}, {})

\* what reaches each socket when `msgs` are sent to the sockets of `targets`:
\* a send to a socket that is not open raises
DeliverTo(targets, msgs, wsmap) ==
  [s \in AllSockets |-> IF s \in targets /\ wsmap[s] = "open" THEN msgs ELSE <<>>]

Init ==
  /\ db_cards = CardIds
  /\ ACTIVE_GAMES = <<>>
  /\ active_games = <<>>
  /\ score_boards = <<>>
  /\ manager = <<>>
  /\ ws = [s \in AllSockets |-> "closed"]
  /\ pc = [s \in AllSockets |-> "recv"]
  /\ last = Op("init", "", "", <<>>, "")
  /\ delivered = NothingDelivered
  /\ graded = NothingGraded
  /\ fanout = NoFanOut

\* ------------------------------------------------------------------------
\* Storage (db/models, db/session): cards of the set can be deleted meanwhile
\* ------------------------------------------------------------------------

DeleteCard(c) ==
  /\ c \in db_cards
  /\ db_cards' = db_cards \ {c}
  /\ last' = Op("delete_card", "", "", <<>>, "")
  /\ delivered' = NothingDelivered
  /\ UNCHANGED << graded, fanout, gamesVars, cardsVars, ws, pc >>

\* ------------------------------------------------------------------------
\* games.py: GameState, scoreboard, broadcast
\* ------------------------------------------------------------------------

PlayerScore == [correct |-> 0, half |-> 0, wrong |-> 0, grade |-> 0]

GameState(creator_username, set_id, max_questions) ==
  [ creator_username       |-> creator_username,
    set_id                 |-> set_id,
    max_questions          |-> max_questions,
    status                 |-> "LOBBY",
    current_question_count |-> 0,
    current_card           |-> None,
    score_board            |-> (creator_username :> PlayerScore),
    answered_users         |-> {},
    active_connections     |-> <<>> ]

\* the counters updated, the grade left as it was
ApplyResult_grade_kept(entry, result) ==
  CASE result = "correct" -> [entry EXCEPT !.correct = @ + 1]
    [] result = "half"    -> [entry EXCEPT !.half = @ + 1]
    [] result = "wrong"   -> [entry EXCEPT !.wrong = @ + 1]
    [] OTHER              -> entry

\* the entry of `username` after `result` is applied to it
ApplyResult(entry, result) ==
  LET counted ==
        CASE result = "correct" -> [entry EXCEPT !.correct = @ + 1]
          [] result = "half"    -> [entry EXCEPT !.half = @ + 1]
          [] result = "wrong"   -> [entry EXCEPT !.wrong = @ + 1]
          [] OTHER              -> entry
  IN  [counted EXCEPT !.grade = counted.correct * POINTS_CORRECT
                                + counted.half * POINTS_HALF]

\* update_game_score: the game's score_board after the update
update_game_score(game, username, result) ==
  LET board == IF username \in DOMAIN game.score_board
               THEN game.score_board
               ELSE game.score_board @@ (username :> PlayerScore)
  IN  [board EXCEPT ![username] = ApplyResult(@, result)]

\* the sockets registered for a game
games_registered(game) == Range(game.active_connections)

\* broadcast_game_message: sent to a snapshot of the registered sockets, a
\* failing send is swallowed
broadcast_game_message(game, msgs, wsmap) ==
  DeliverTo(games_registered(game), msgs, wsmap)

\* get_random_card_from_set: the cards random.choice can return, {None} when
\* the set has no cards left
get_random_card_from_set == IF db_cards = {} THEN {None} ELSE db_cards

\* the dispatch of line 283 without its creator test
games_is_creator_anyone(game, username) == TRUE

\* username == game.creator_username
games_is_creator(game, username) == username = game.creator_username

\* ------------------------------------------------------------------------
\* games.py: HTTP routes
\* ------------------------------------------------------------------------

\* the set the creation form names, as the request carries it
SetArg(set_id) == ToString(set_id)

\* line 162 without its test: a set is never taken to be empty
set_has_no_cards_unchecked(cards) == FALSE

\* line 162: not game_set.cards (cards.py 82: not cards_in_set)
set_has_no_cards(cards) == cards = {}

\* create_game, with str(uuid.uuid4())[:8].upper() drawn from `ids`:
\* ACTIVE_GAMES[new_game.game_id] = new_game assigns whatever the key held
games_create(current_user, set_id, max_questions, ids) ==
  /\ \E game_id \in ids :
       IF set_id # TheSet
       THEN /\ last' = Op("create_game", current_user, SetArg(set_id), <<>>,
                          "400 invalid set")
            /\ UNCHANGED ACTIVE_GAMES
       ELSE IF set_has_no_cards(db_cards)
       THEN /\ last' = Op("create_game", current_user, SetArg(set_id), <<>>,
                          "400 no cards")
            /\ UNCHANGED ACTIVE_GAMES
       ELSE /\ ACTIVE_GAMES' =
                 [g \in DOMAIN ACTIVE_GAMES \cup {game_id} |->
                    IF g = game_id
                    THEN GameState(current_user, set_id,
                           Min(Min(max_questions, Cardinality(db_cards)), HardCap))
                    ELSE ACTIVE_GAMES[g]]
            /\ last' = Op("create_game", current_user, SetArg(set_id), <<>>, "303")
  /\ delivered' = NothingDelivered
  /\ UNCHANGED << db_cards, graded, fanout, cardsVars, ws, pc >>

\* create_game for the one session that is followed
games_create_game(current_user, set_id, max_questions) ==
  /\ NoSession
  /\ games_create(current_user, set_id, max_questions, GameIdsOfGames)

\* line 203 with the test left out: every page load assigns a new entry
games_join_adds_entry_always(game, current_user) == TRUE

\* line 203: not is_creator and not is_player
games_join_adds_entry(game, current_user) ==
  LET is_creator == current_user = game.creator_username
      is_player  == current_user \in DOMAIN game.score_board
  IN  ~is_creator /\ ~is_player

\* join_game_page; line 204 assigns game.score_board[username] = PlayerScore()
games_join_game_page(current_user, game_id) ==
  /\ game_id \in DOMAIN ACTIVE_GAMES
  /\ LET game == ACTIVE_GAMES[game_id]
     IN  ACTIVE_GAMES' =
           IF games_join_adds_entry(game, current_user)
           THEN [ACTIVE_GAMES EXCEPT ![game_id].score_board =
                   [u \in DOMAIN @ \cup {current_user} |->
                      IF u = current_user THEN PlayerScore ELSE @[u]]]
           ELSE ACTIVE_GAMES
  /\ last' = Op("page", current_user, "", <<>>, "200")
  /\ delivered' = NothingDelivered
  /\ UNCHANGED << db_cards, graded, fanout, cardsVars, ws, pc >>

\* ------------------------------------------------------------------------
\* The client side of a websocket
\* ------------------------------------------------------------------------

\* the client of an open socket goes away; the handler learns of it at its
\* next receive_json, and until then a send to the socket raises
Drop(s) ==
  /\ ws[s] = "open"
  /\ ws' = [ws EXCEPT ![s] = "dropped"]
  /\ last' = Op("drop", s, "", <<>>, "")
  /\ delivered' = NothingDelivered
  /\ UNCHANGED << db_cards, graded, fanout, gamesVars, cardsVars, pc >>

\* ------------------------------------------------------------------------
\* games.py: websocket_endpoint
\* ------------------------------------------------------------------------

\* a step of the handler of socket s that leaves the game as `game`
games_step(game_id, game, op, wsmap, sent) ==
  /\ ACTIVE_GAMES' = [ACTIVE_GAMES EXCEPT ![game_id] = game]
  /\ last' = op
  /\ ws' = wsmap
  /\ delivered' = sent
  /\ UNCHANGED << db_cards, graded, fanout, cardsVars >>

\* the handler of s is in its receive loop on a game of games.py
games_receiving(s, game_id) ==
  /\ game_id \in DOMAIN ACTIVE_GAMES
  /\ ws[s] = "open"
  /\ pc[s] = "recv"

\* line 227 with the test of the user left out
games_ws_authorized_any_user(game_id, username) ==
  game_id \in DOMAIN ACTIVE_GAMES

\* line 227: not (not game or username not in game.score_board)
games_ws_authorized(game_id, username) ==
  /\ game_id \in DOMAIN ACTIVE_GAMES
  /\ username \in DOMAIN ACTIVE_GAMES[game_id].score_board

\* lines 224-243: authorization, accept, registration, join notice
games_ws_connect(s, game_id) ==
  LET username == UserOf(s) IN
  /\ ws[s] = "closed"
  /\ IF ~games_ws_authorized(game_id, username)
     THEN /\ last' = Op("connect", username, "", <<>>, "close 1008")
          /\ delivered' = NothingDelivered
          /\ UNCHANGED << ACTIVE_GAMES, ws >>
     ELSE LET game  == [ACTIVE_GAMES[game_id] EXCEPT
                          !.active_connections =
                             [u \in DOMAIN @ \cup {username} |->
                                IF u = username THEN s ELSE @[u]]]
              wsmap == [ws EXCEPT ![s] = "open"]
          IN  /\ ACTIVE_GAMES' = [ACTIVE_GAMES EXCEPT ![game_id] = game]
              /\ ws' = wsmap
              /\ last' = Op("connect", username, "", <<"chat_message">>, "accept")
              /\ delivered' = broadcast_game_message(game, <<"chat_message">>, wsmap)
  /\ UNCHANGED << db_cards, graded, fanout, cardsVars, pc >>

\* lines 250-260
games_ws_chat(s, game_id, message) ==
  LET username == UserOf(s)
      game     == ACTIVE_GAMES[game_id]
      emitted  == IF message # <<>> THEN <<"chat_message">> ELSE <<>>
  IN  /\ games_receiving(s, game_id)
      /\ games_step(game_id, game,
                    Op("chat", username, IF message # <<>> THEN "text" ELSE "empty",
                       emitted, ""),
                    ws, broadcast_game_message(game, emitted, ws))
      /\ UNCHANGED << pc >>

\* the test of line 266 without its answered_users part
games_answer_ignored_status_only(game, username) == game.status # "ACTIVE"

\* line 266: game.status != "ACTIVE" or game.answered_users.get(username)
games_answer_ignored(game, username) ==
  game.status # "ACTIVE" \/ username \in game.answered_users

\* lines 262-281
games_ws_answer_submission(s, game_id, raw_answer) ==
  LET username == UserOf(s)
      game     == ACTIVE_GAMES[game_id]
      answer   == Strip(raw_answer)
      arg      == IF answer = <<>> THEN "empty" ELSE "text"
  IN  /\ games_receiving(s, game_id)
      /\ IF games_answer_ignored(game, username)
         THEN /\ games_step(game_id, game,
                            Op("answer_submission", username, arg, <<>>, ""),
                            ws, NothingDelivered)
         ELSE IF game.current_card = None
         THEN \* game.current_card.back raises; "except Exception" ends the handler
              /\ games_step(game_id, game,
                            Op("answer_submission", username, arg, <<>>, "exception"),
                            [ws EXCEPT ![s] = "dead"], NothingDelivered)
         ELSE LET result == games_grade_answer(answer, Back(game.current_card))
                  scored == [game EXCEPT
                               !.score_board = update_game_score(game, username, result),
                               !.answered_users = @ \cup {username}]
              IN  /\ games_step(game_id, scored,
                                Op("answer_submission", username, arg,
                                   <<"answer_result">>, result),
                                ws,
                                broadcast_game_message(scored, <<"answer_result">>, ws))
      /\ UNCHANGED pc

\* the test of line 297 passing one question late
games_questions_exhausted_one_late(game) ==
  game.current_question_count > game.max_questions

\* line 297: current_question_count >= max_questions
games_questions_exhausted(game) ==
  game.current_question_count >= game.max_questions

\* lines 295-319: the request_next_card branch, run on `game` by the handler of s
\* after it has already emitted `before`
games_request_next_card(s, game_id, game, arg, before) ==
  LET username == UserOf(s) IN
  IF game.status # "ACTIVE"
  THEN /\ games_step(game_id, game, Op("game_control", username, arg, before, ""),
                     ws, broadcast_game_message(game, before, ws))
  ELSE IF games_questions_exhausted(game)
  THEN LET emitted == before \o <<"game_status_update FINISHED">> IN
       /\ games_step(game_id, [game EXCEPT !.status = "FINISHED"],
                     Op("game_control", username, arg, emitted, ""),
                     ws, broadcast_game_message(game, emitted, ws))
  ELSE \E next_card \in get_random_card_from_set :
         LET emitted == IF next_card # None THEN before \o <<"new_card">> ELSE before
             asked   == [game EXCEPT
                           !.answered_users = {},
                           !.current_question_count = @ + 1,
                           !.current_card = IF next_card # None THEN next_card ELSE @]
         IN  /\ games_step(game_id, asked,
                           IF next_card # None
                           THEN NewCard(Op("game_control", username, arg, emitted, ""),
                                        asked.current_question_count)
                           ELSE Op("game_control", username, arg, emitted, ""),
                           ws, broadcast_game_message(game, emitted, ws))

\* lines 283-319
games_ws_game_control(s, game_id, command) ==
  LET username == UserOf(s)
      game     == ACTIVE_GAMES[game_id]
  IN  /\ games_receiving(s, game_id)
      /\ IF ~games_is_creator(game, username)
         THEN \* no branch of the dispatch matches: the message is dropped
              /\ games_step(game_id, game, Op("game_control", username, command, <<>>, ""),
                            ws, NothingDelivered)
              /\ UNCHANGED << pc >>
         ELSE IF command = "start_game" /\ game.status = "LOBBY"
         THEN LET started == [game EXCEPT !.status = "ACTIVE"] IN
              IF games_registered(game) # {}
              THEN \* the broadcast awaits a send: other handlers run before line 293
                   /\ games_step(game_id, started,
                                 Op("game_control", username, command,
                                    <<"game_status_update ACTIVE">>, ""),
                                 ws,
                                 broadcast_game_message(game,
                                    <<"game_status_update ACTIVE">>, ws))
                   /\ pc' = [pc EXCEPT ![s] = "start_game"]
              ELSE /\ games_request_next_card(s, game_id, started, command,
                                              <<"game_status_update ACTIVE">>)
                   /\ UNCHANGED pc
         ELSE IF command = "request_next_card"
         THEN /\ games_request_next_card(s, game_id, game, command, <<>>)
              /\ UNCHANGED pc
         ELSE /\ games_step(game_id, game, Op("game_control", username, command, <<>>, ""),
                            ws, NothingDelivered)
              /\ UNCHANGED << pc >>

\* lines 293-319, after the start broadcast: command = 'request_next_card'
games_ws_start_game_resume(s, game_id) ==
  /\ game_id \in DOMAIN ACTIVE_GAMES
  /\ pc[s] = "start_game"
  /\ games_request_next_card(s, game_id, ACTIVE_GAMES[game_id], "start_game resumed", <<>>)
  /\ pc' = [pc EXCEPT ![s] = "recv"]

\* a score_update that goes to every registered socket
score_update_recipients_all(registered, s) == registered \cup {s}

\* line 326 (cards.py 668): the score_update is sent on the handler's own socket
score_update_recipients(registered, s) == {s}

\* the operation record of a score_request, with the scores the reply carries
ScoreRequest(s, scores) ==
  Op("score_request", UserOf(s), s, <<>>, "score_update") @@ [scores |-> scores]

\* lines 321-326
games_ws_score_request(s, game_id) ==
  /\ games_receiving(s, game_id)
  /\ LET game == ACTIVE_GAMES[game_id] IN
     games_step(game_id, game, ScoreRequest(s, game.score_board), ws,
                DeliverTo(score_update_recipients(games_registered(game), s),
                          <<"score_update">>, ws))
  /\ UNCHANGED << pc >>

\* lines 328-340: receive_json raises WebSocketDisconnect
games_ws_disconnect(s, game_id) ==
  LET username == UserOf(s) IN
  /\ game_id \in DOMAIN ACTIVE_GAMES
  /\ ws[s] = "dropped"
  /\ pc[s] = "recv"
  /\ LET game  == [ACTIVE_GAMES[game_id] EXCEPT
                     !.active_connections = [u \in DOMAIN @ \ {username} |-> @[u]]]
         wsmap == [ws EXCEPT ![s] = "closed"]
     IN  games_step(game_id, game,
                    Op("disconnect", username, "", <<"chat_message">>, ""),
                    wsmap, broadcast_game_message(game, <<"chat_message">>, wsmap))
  /\ UNCHANGED << pc >>

\* ------------------------------------------------------------------------
\* cards.py: LiveGame, get_current_card, score_boards, ConnectionManager
\* ------------------------------------------------------------------------

LiveGame(creator_id, set_id, card_ids, questions_limit, is_solo) ==
  [ creator_id         |-> creator_id,
    set_id             |-> set_id,
    card_ids           |-> card_ids,
    players            |-> {},
    current_card_index |-> InitialCardIndex,
    questions_limit    |-> questions_limit,
    state              |-> IF is_solo THEN "IN_PROGRESS" ELSE "WAITING",
    is_solo            |-> is_solo,
    score              |-> 0 ]

\* the k smallest cards of a set, in ascending order
RECURSIVE Ascending(_, _)
Ascending(cards, k) ==
  IF k <= 0 \/ cards = {} THEN <<>>
  ELSE LET least == CHOOSE c \in cards : \A d \in cards : c <= d
       IN  <<least>> \o Ascending(cards \ {least}, k - 1)

\* a choice with replacement: k cards, repeats allowed
Samples_with_repeats(cards, k) == [1..k -> cards]

\* random.sample(cards, k): the sequences of k distinct cards; of a set that
\* is larger than CardIds only the ascending sample is followed
Samples(cards, k) ==
  IF Cardinality(cards) <= Cardinality(CardIds)
  THEN { q \in [1..k -> cards] : \A i, j \in 1..k : q[i] = q[j] => i = j }
  ELSE IF k < 0 THEN {} ELSE { Ascending(cards, k) }

\* a lookup that finds every card, deleted or not
card_not_found_never(card_id) == FALSE

\* lines 108-110: the select on Card.id finds no row
card_not_found(card_id) == card_id \notin db_cards

\* get_current_card on a game whose index is `index`: the card returned (None
\* when there is none) and the index the game is left with
RECURSIVE get_current_card(_, _)
get_current_card(card_ids, index) ==
  IF 0 <= index /\ index < Len(card_ids)
  THEN IF card_not_found(card_ids[index + 1])
       THEN IF index + 1 < Len(card_ids)
            THEN get_current_card(card_ids, index + 1)
            ELSE [card |-> None, index |-> index]
       ELSE [card |-> card_ids[index + 1], index |-> index]
  ELSE [card |-> None, index |-> index]

\* update_score_board: score_boards after the update
update_score_board(boards, game_id, username, result) ==
  LET withGame == IF game_id \in DOMAIN boards THEN boards ELSE boards @@ (game_id :> <<>>)
      board    == IF username \in DOMAIN withGame[game_id]
                  THEN withGame[game_id]
                  ELSE withGame[game_id] @@ (username :> PlayerScore)
  IN  [withGame EXCEPT ![game_id] = [board EXCEPT ![username] = ApplyResult(@, result)]]

\* score_boards.get(game_id, {})
cards_board(game_id) ==
  IF game_id \in DOMAIN score_boards THEN score_boards[game_id] ELSE <<>>

\* the items of manager.active_connections[game_id], in insertion order
cards_connections(mgr, game_id) ==
  IF game_id \in DOMAIN mgr THEN mgr[game_id] ELSE <<>>

\* a registry that adds an item for every connect, known key or not
manager_connect_appending(mgr, game_id, client_id, s) ==
  [g \in DOMAIN mgr \cup {game_id} |->
     IF g = game_id
     THEN Append(cards_connections(mgr, game_id), [client_id |-> client_id, ws |-> s])
     ELSE mgr[g]]

\* ConnectionManager.connect: a dict assignment keeps the place of a known key
manager_connect(mgr, game_id, client_id, s) ==
  LET conns == cards_connections(mgr, game_id)
      item  == [client_id |-> client_id, ws |-> s]
      known == \E i \in 1..Len(conns) : conns[i].client_id = client_id
      after == IF known
               THEN [i \in 1..Len(conns) |->
                       IF conns[i].client_id = client_id THEN item ELSE conns[i]]
               ELSE Append(conns, item)
  IN  [g \in DOMAIN mgr \cup {game_id} |-> IF g = game_id THEN after ELSE mgr[g]]

\* ConnectionManager.disconnect
manager_disconnect(mgr, game_id, client_id) ==
  IF game_id \in DOMAIN mgr
  THEN [mgr EXCEPT ![game_id] = SelectSeq(@, LAMBDA item : item.client_id # client_id)]
  ELSE mgr

\* the place of the first connection whose send raises, 0 when every send succeeds
FirstFailing(conns, wsmap) ==
  IF \E i \in 1..Len(conns) : wsmap[conns[i].ws] # "open"
  THEN CHOOSE i \in 1..Len(conns) :
         /\ wsmap[conns[i].ws] # "open"
         /\ \A j \in 1..(i - 1) : wsmap[conns[j].ws] = "open"
  ELSE 0

\* ConnectionManager.broadcast: the sends are made in the dict's order and the
\* first one that raises ends the loop and raises out of broadcast
manager_broadcast(mgr, game_id, game, msg, wsmap) ==
  LET conns == cards_connections(mgr, game_id)
      k     == IF game.is_solo THEN 0 ELSE FirstFailing(conns, wsmap)
  IN  [ sent   |-> [s \in AllSockets |->
                     IF /\ ~game.is_solo
                        /\ \E i \in 1..Len(conns) :
                              conns[i].ws = s /\ (k = 0 \/ i < k)
                     THEN <<msg>> ELSE <<>>],
        raised |-> k # 0 ]

\* two rounds of deliveries, one after the other
Both(d1, d2) == [s \in AllSockets |-> d1[s] \o d2[s]]

\* current_user.id == game.creator_id
cards_is_creator(game, current_user) == current_user = game.creator_id

\* create_new_game: the games it can build (the sample is random); the caller
\* has checked that the set exists and has cards and that num_questions >= 0
create_new_game(current_user, set_id, num_questions, is_solo) ==
  LET limit == Min(num_questions, Cardinality(db_cards)) IN
  { [LiveGame(current_user, set_id, card_ids, limit, is_solo)
       EXCEPT !.players = {current_user}] : card_ids \in Samples(db_cards, limit) }

\* a step of cards.py that leaves the game as `game`
cards_step(game_id, game, op, sent) ==
  /\ active_games' = [active_games EXCEPT ![game_id] = game]
  /\ last' = op
  /\ delivered' = sent
  /\ UNCHANGED << db_cards, graded, fanout, gamesVars, pc >>

\* a request that is refused before it touches anything
cards_refused(op) ==
  /\ last' = op
  /\ delivered' = NothingDelivered
  /\ UNCHANGED << db_cards, graded, fanout, gamesVars, cardsVars, ws, pc >>

\* create_new_game as called by create_game (is_solo = False) and by
\* start_solo_game (is_solo = True, then current_card_index = 0)
\* with generate_game_id drawing from `ids` until the id is not in active_games
cards_create_in(current_user, set_id, num_questions, is_solo, ids) ==
  LET name == IF is_solo THEN "solo_start" ELSE "create_game" IN
  /\ \E game_id \in ids \ DOMAIN active_games :
       IF set_id # TheSet
       THEN cards_refused(Op(name, current_user, SetArg(set_id), <<>>, "400 invalid set"))
       ELSE IF set_has_no_cards(db_cards)
       THEN cards_refused(Op(name, current_user, SetArg(set_id), <<>>, "400 empty set"))
       ELSE IF Min(num_questions, Cardinality(db_cards)) < 0
       THEN \* random.sample raises ValueError, turned into a 500
            cards_refused(Op(name, current_user, SetArg(set_id), <<>>, "500"))
       ELSE \E new_game \in create_new_game(current_user, set_id, num_questions, is_solo) :
              /\ active_games' =
                   [g \in DOMAIN active_games \cup {game_id} |->
                      IF g = game_id
                      THEN IF is_solo
                           THEN [new_game EXCEPT !.current_card_index = 0]
                           ELSE new_game
                      ELSE active_games[g]]
              /\ last' = Op(name, current_user, SetArg(set_id), <<>>, "303")
              /\ delivered' = NothingDelivered
              /\ UNCHANGED << db_cards, graded, fanout, gamesVars, score_boards, manager, ws, pc >>

\* create_game and start_solo_game for the one session that is followed
cards_create(current_user, set_id, num_questions, is_solo) ==
  /\ NoSession
  /\ cards_create_in(current_user, set_id, num_questions, is_solo, GameIdsOfCards)

\* ------------------------------------------------------------------------
\* cards.py: multiplayer HTTP routes
\* ------------------------------------------------------------------------

\* play_game with a game_id: join, then the page for the game's state
cards_play_game(current_user, game_id) ==
  IF game_id \notin DOMAIN active_games
  THEN cards_refused(Op("page", current_user, "", <<>>, "not_found"))
  ELSE LET game == active_games[game_id] IN
       IF game.is_solo
       THEN cards_refused(Op("page", current_user, "", <<>>, "404"))
       ELSE LET cur    == get_current_card(game.card_ids, game.current_card_index)
                joined == [game EXCEPT !.players = @ \cup {current_user},
                                       !.current_card_index = cur.index]
                page   == CASE game.state = "WAITING"     -> "waiting_to_start"
                            [] game.state = "IN_PROGRESS" ->
                                 IF cur.card = None THEN "in_progress no card"
                                                    ELSE "in_progress card"
                            [] OTHER                      -> "finished"
            IN  /\ cards_step(game_id, joined, Op("page", current_user, "", <<>>, page),
                              NothingDelivered)
                /\ UNCHANGED << score_boards, manager, ws >>

\* start_game
cards_start_game(current_user, game_id) ==
  IF game_id \notin DOMAIN active_games
  THEN cards_refused(Op("start_game", current_user, "", <<>>, "404"))
  ELSE LET game == active_games[game_id] IN
       IF ~cards_is_creator(game, current_user)
       THEN cards_refused(Op("start_game", current_user, "", <<>>, "403"))
       ELSE LET cur == get_current_card(game.card_ids, 0) IN
            IF cur.card = None
            THEN /\ cards_step(game_id,
                      [game EXCEPT !.state = "FINISHED", !.current_card_index = cur.index],
                      Op("start_game", current_user, "", <<>>, "400"), NothingDelivered)
                 /\ UNCHANGED << score_boards, manager, ws >>
            ELSE LET started == [game EXCEPT !.state = "IN_PROGRESS",
                                             !.current_card_index = cur.index]
                     b1 == manager_broadcast(manager, game_id, started,
                                             "game_start_signal", ws)
                     b2 == manager_broadcast(manager, game_id, started, "new_card", ws)
                 IN  /\ cards_step(game_id, started,
                           Op("start_game", current_user, "",
                              IF b1.raised THEN <<"game_start_signal">>
                                           ELSE <<"game_start_signal", "new_card">>,
                              IF b1.raised \/ b2.raised THEN "500" ELSE "303"),
                           IF b1.raised THEN b1.sent ELSE Both(b1.sent, b2.sent))
                     /\ UNCHANGED << score_boards, manager, ws >>

\* end_game
cards_end_game(current_user, game_id) ==
  IF game_id \notin DOMAIN active_games
  THEN cards_refused(Op("end_game", current_user, "", <<>>, "404"))
  ELSE LET game == active_games[game_id] IN
       IF ~cards_is_creator(game, current_user)
       THEN cards_refused(Op("end_game", current_user, "", <<>>, "403"))
       ELSE LET ended == [game EXCEPT !.state = "FINISHED"]
                b     == manager_broadcast(manager, game_id, ended, "game_end", ws)
            IN  /\ cards_step(game_id, ended,
                      Op("end_game", current_user, "", <<"game_end">>,
                         IF b.raised THEN "500" ELSE "303"),
                      b.sent)
                /\ UNCHANGED << score_boards, manager, ws >>

\* ------------------------------------------------------------------------
\* cards.py: websocket_endpoint
\* ------------------------------------------------------------------------

\* the handler of s is in its receive loop on a game of cards.py
cards_receiving(s, game_id) ==
  /\ game_id \in DOMAIN active_games
  /\ ws[s] = "open"
  /\ pc[s] = "recv"

\* lines 556-573: the checks, then manager.connect
cards_ws_connect(s, game_id) ==
  LET client_id == UserOf(s) IN
  /\ ws[s] = "closed"
  /\ IF game_id \notin DOMAIN active_games
     THEN cards_refused(Op("connect", client_id, "", <<>>, "close 1008"))
     ELSE IF client_id \notin active_games[game_id].players
     THEN cards_refused(Op("connect", client_id, "", <<>>, "close 1008"))
     ELSE IF active_games[game_id].is_solo
     THEN cards_refused(Op("connect", client_id, "", <<>>, "close 1003"))
     ELSE /\ manager' = manager_connect(manager, game_id, client_id, s)
          /\ ws' = [ws EXCEPT ![s] = "open"]
          /\ last' = Op("connect", client_id, "", <<>>, "accept")
          /\ delivered' = NothingDelivered
          /\ UNCHANGED << db_cards, graded, fanout, gamesVars, active_games, score_boards, pc >>

\* how a loop iteration of the handler of s ends after it broadcast `msg`:
\* normally, or, when a send raised, in one of the two except clauses
\* (which one depends on the exception the websocket library raises)
cards_after_broadcast(s, game_id, game, msg) ==
  LET client_id == UserOf(s)
      b         == manager_broadcast(manager, game_id, game, msg, ws)
  IN  IF ~b.raised
      THEN /\ delivered' = b.sent
           /\ UNCHANGED << manager, ws >>
      ELSE \E exception \in {"WebSocketDisconnect", "Exception"} :
             IF exception = "WebSocketDisconnect"
             THEN \* lines 670-678; a second raise leaves the handler as well
                  LET left == manager_disconnect(manager, game_id, client_id)
                      b2   == manager_broadcast(left, game_id, game, "chat_message", ws)
                  IN  /\ manager' = left
                      /\ ws' = [ws EXCEPT ![s] = "closed"]
                      /\ delivered' = Both(b.sent, b2.sent)
             ELSE \* lines 679-680: the handler returns, s stays registered
                  /\ ws' = [ws EXCEPT ![s] = "dead"]
                  /\ delivered' = b.sent
                  /\ UNCHANGED manager

\* a loop iteration that changes the game to `game` and broadcasts `msg`
cards_ws_broadcast_step(s, game_id, game, op, msg) ==
  /\ active_games' = [active_games EXCEPT ![game_id] = game]
  /\ last' = op
  /\ cards_after_broadcast(s, game_id, game, msg)
  /\ UNCHANGED << db_cards, graded, fanout, gamesVars, pc >>

\* a loop iteration that changes the game to `game` and sends `sent` at most to s
cards_ws_quiet_step(s, game_id, game, op, sent) ==
  /\ cards_step(game_id, game, op, sent)
  /\ UNCHANGED << score_boards, manager, ws >>

\* lines 579-589
cards_ws_chat(s, game_id, message) ==
  LET client_id == UserOf(s)
      game      == active_games[game_id]
  IN  /\ cards_receiving(s, game_id)
      /\ IF message # <<>>
         THEN /\ cards_ws_broadcast_step(s, game_id, game,
                     Op("chat", client_id, "text", <<"chat_message">>, ""), "chat_message")
              /\ UNCHANGED score_boards
         ELSE cards_ws_quiet_step(s, game_id, game,
                 Op("chat", client_id, "empty", <<>>, ""), NothingDelivered)

\* the answers a board has counted
RECURSIVE Answered(_)
Answered(board) ==
  IF DOMAIN board = {} THEN 0
  ELSE LET u == CHOOSE x \in DOMAIN board : TRUE
       IN  board[u].correct + board[u].half + board[u].wrong
           + Answered([x \in DOMAIN board \ {u} |-> board[x]])

\* lines 591-623
cards_ws_answer_submission(s, game_id, raw_answer, viewed_answer) ==
  LET client_id == UserOf(s)
      game      == active_games[game_id]
      answer    == Strip(raw_answer)
      arg       == IF viewed_answer THEN "viewed"
                   ELSE IF answer = <<>> THEN "empty" ELSE "text"
  IN  /\ cards_receiving(s, game_id)
      /\ IF game.state # "IN_PROGRESS"
         THEN cards_ws_quiet_step(s, game_id, game,
                 Op("answer_submission", client_id, arg, <<>>, ""), NothingDelivered)
         ELSE LET cur   == get_current_card(game.card_ids, game.current_card_index)
                  moved == [game EXCEPT !.current_card_index = cur.index]
              IN  IF cur.card = None \/ (answer = <<>> /\ ~viewed_answer)
                  THEN cards_ws_quiet_step(s, game_id, moved,
                          Op("answer_submission", client_id, arg, <<>>, ""),
                          NothingDelivered)
                  ELSE LET result == IF viewed_answer THEN "wrong"
                                     ELSE cards_grade_answer(answer, Back(cur.card))
                       IN  /\ Answered(cards_board(game_id)) < MaxAnswers
                           /\ score_boards' =
                                update_score_board(score_boards, game_id, client_id, result)
                           /\ active_games' = [active_games EXCEPT ![game_id] = moved]
                           /\ last' = Op("answer_submission", client_id, arg,
                                         <<"answer_result">>, result)
                           /\ cards_after_broadcast(s, game_id, moved, "answer_result")
                           /\ UNCHANGED << db_cards, graded, fanout, gamesVars, pc >>

\* lines 625-661
cards_ws_game_control(s, game_id, command) ==
  LET client_id == UserOf(s)
      game      == active_games[game_id]
  IN  /\ cards_receiving(s, game_id)
      /\ IF game.state # "IN_PROGRESS"
         THEN cards_ws_quiet_step(s, game_id, game,
                 Op("game_control", client_id, command, <<>>, ""), NothingDelivered)
         ELSE IF ~cards_is_creator(game, client_id)
         THEN cards_ws_quiet_step(s, game_id, game,
                 Op("game_control", client_id, command, <<>>, "error"),
                 DeliverTo({s}, <<"error">>, ws))
         ELSE IF command # "request_next_card"
         THEN cards_ws_quiet_step(s, game_id, game,
                 Op("game_control", client_id, command, <<>>, ""), NothingDelivered)
         ELSE LET next_index == game.current_card_index + 1 IN
              IF next_index >= Len(game.card_ids)
              THEN /\ cards_ws_broadcast_step(s, game_id,
                          [game EXCEPT !.current_card_index = next_index,
                                       !.state = "FINISHED"],
                          Op("game_control", client_id, command, <<"game_end">>, ""),
                          "game_end")
                   /\ UNCHANGED score_boards
              ELSE LET cur == get_current_card(game.card_ids, next_index) IN
                   IF cur.card # None
                   THEN /\ cards_ws_broadcast_step(s, game_id,
                               [game EXCEPT !.current_card_index = cur.index],
                               NewCard(Op("game_control", client_id, command,
                                          <<"new_card">>, ""),
                                       cur.index + 1),
                               "new_card")
                        /\ UNCHANGED score_boards
                   ELSE /\ cards_ws_broadcast_step(s, game_id,
                               [game EXCEPT !.current_card_index = cur.index,
                                            !.state = "FINISHED"],
                               Op("game_control", client_id, command, <<"game_end">>, ""),
                               "game_end")
                        /\ UNCHANGED score_boards

\* lines 663-668
cards_ws_score_request(s, game_id) ==
  /\ cards_receiving(s, game_id)
  /\ cards_ws_quiet_step(s, game_id, active_games[game_id],
        ScoreRequest(s, cards_board(game_id)),
        DeliverTo(score_update_recipients(
                    { item.ws : item \in Range(cards_connections(manager, game_id)) }, s),
                  <<"score_update">>, ws))

\* lines 670-678: receive_json raises WebSocketDisconnect
cards_ws_disconnect(s, game_id) ==
  LET client_id == UserOf(s)
      left      == manager_disconnect(manager, game_id, client_id)
      b         == manager_broadcast(left, game_id, active_games[game_id],
                                     "chat_message", [ws EXCEPT ![s] = "closed"])
  IN  /\ game_id \in DOMAIN active_games
      /\ ws[s] = "dropped"
      /\ manager' = left
      /\ ws' = [ws EXCEPT ![s] = "closed"]
      /\ last' = Op("disconnect", client_id, "", <<"chat_message">>,
                    IF b.raised THEN "exception" ELSE "")
      /\ delivered' = b.sent
      /\ UNCHANGED << db_cards, graded, fanout, gamesVars, active_games, score_boards, pc >>

\* ------------------------------------------------------------------------
\* cards.py: solo routes
\* ------------------------------------------------------------------------

\* the current_index values a client can post to /playtriv/next
ClientIndexes == (-2)..NumCards

\* not game or game.creator_id != current_user.id or not game.is_solo
solo_unavailable(current_user, game_id) ==
  \/ game_id \notin DOMAIN active_games
  \/ active_games[game_id].creator_id # current_user
  \/ ~active_games[game_id].is_solo

\* a step of a solo route that leaves the game as `game`
solo_step(game_id, game, op) ==
  /\ cards_step(game_id, game, op, NothingDelivered)
  /\ UNCHANGED << score_boards, manager, ws >>

\* solo_game_in_progress
solo_game_in_progress(current_user, game_id) ==
  IF solo_unavailable(current_user, game_id)
  THEN cards_refused(Op("solo_page", current_user, "", <<>>, "404"))
  ELSE LET game == active_games[game_id] IN
       IF game.state = "FINISHED"
       THEN cards_refused(Op("solo_page", current_user, "", <<>>, "redirect finished"))
       ELSE LET cur   == get_current_card(game.card_ids, game.current_card_index)
                moved == [game EXCEPT !.current_card_index = cur.index]
            IN  /\ IF cur.card = None /\ cur.index >= Len(game.card_ids)
                   THEN solo_step(game_id, [moved EXCEPT !.state = "FINISHED"],
                           Op("solo_page", current_user, "", <<>>, "redirect finished"))
                   ELSE solo_step(game_id, moved,
                           Op("solo_page", current_user, "", <<>>,
                              IF cur.card = None THEN "in_progress no card"
                                                 ELSE "in_progress card"))

\* every graded answer earns the points of a correct one
solo_points_flat(result) == POINTS_CORRECT

\* lines 300-306: the points added to game.score for a result
solo_points(result) ==
  CASE result = "correct" -> POINTS_CORRECT
    [] result = "half"    -> POINTS_HALF
    [] OTHER              -> 0

\* line 288 without its state test
solo_not_in_progress_unchecked(game) == FALSE

\* line 288: game.state != "IN_PROGRESS"
solo_not_in_progress(game) == game.state # "IN_PROGRESS"

\* solo_game_submit_answer; game_id is present in the request
solo_game_submit_answer(current_user, game_id, raw_answer) ==
  LET user_answer == Strip(raw_answer)
      arg         == IF user_answer = <<>> THEN "empty" ELSE "text"
  IN  IF user_answer = <<>>
      THEN cards_refused(Op("solo_answer", current_user, arg, <<>>, "400 missing"))
      ELSE IF solo_unavailable(current_user, game_id)
      THEN cards_refused(Op("solo_answer", current_user, arg, <<>>, "404"))
      ELSE LET game == active_games[game_id] IN
           IF solo_not_in_progress(game)
           THEN cards_refused(Op("solo_answer", current_user, arg, <<>>,
                                 "400 not in progress"))
           ELSE LET cur   == get_current_card(game.card_ids, game.current_card_index)
                    moved == [game EXCEPT !.current_card_index = cur.index]
                IN  IF cur.card = None
                    THEN solo_step(game_id, [moved EXCEPT !.state = "FINISHED"],
                            Op("solo_answer", current_user, arg, <<>>, "finished"))
                    ELSE LET result == cards_grade_answer(user_answer, Back(cur.card))
                             scored == [moved EXCEPT !.score = @ + solo_points(result)]
                         IN  /\ game.score < MaxAnswers * POINTS_CORRECT
                             /\ active_games' = [active_games EXCEPT ![game_id] = scored]
                             /\ last' = Op("solo_answer", current_user, arg, <<>>, result)
                             /\ delivered' = NothingDelivered
                             /\ graded' =
                                  CASE result = "correct" -> [graded EXCEPT !.correct = @ + 1]
                                    [] result = "half"    -> [graded EXCEPT !.half = @ + 1]
                                    [] OTHER              -> graded
                             /\ UNCHANGED << db_cards, fanout, gamesVars, score_boards,
                                             manager, ws, pc >>

\* solo_game_next_card; game_id and current_index are present in the request
solo_game_next_card(current_user, game_id, current_index) ==
  IF solo_unavailable(current_user, game_id)
  THEN cards_refused(Op("solo_next", current_user, "", <<>>, "404"))
  ELSE LET game == active_games[game_id] IN
       IF game.state = "FINISHED"
       THEN cards_refused(Op("solo_next", current_user, "", <<>>, "finished"))
       ELSE LET next_index == current_index + 1
                cur        == get_current_card(game.card_ids, next_index)
            IN  IF next_index >= Len(game.card_ids) \/ cur.card = None
                THEN /\ solo_step(game_id,
                          [game EXCEPT !.current_card_index = cur.index,
                                       !.state = "FINISHED"],
                          Op("solo_next", current_user, "", <<>>, "finished"))
                ELSE /\ solo_step(game_id, [game EXCEPT !.current_card_index = cur.index],
                          Op("solo_next", current_user, "", <<>>, "success card"))

\* ------------------------------------------------------------------------
\* Specification
\* ------------------------------------------------------------------------

Commands == {"start_game", "request_next_card"}

ChatMessages == { <<"a">>, <<>> }

\* the sessions of each kind that a request can name
GamesOfGames == DOMAIN ACTIVE_GAMES

\* the ids a websocket can be opened on: the sessions there are, and an id
\* that names no session
GamesToConnect == DOMAIN ACTIVE_GAMES \cup (IF NoSession THEN GameIdsOfGames ELSE {})

CardsToConnect == DOMAIN active_games \cup (IF NoSession THEN GameIdsOfCards ELSE {})

MultiGames == { g \in DOMAIN active_games : ~active_games[g].is_solo }

SoloGames == { g \in DOMAIN active_games : active_games[g].is_solo }

Next ==
  \/ \E c \in CardIds : DeleteCard(c)
  \/ \E s \in Droppable : Drop(s)
  \/ \E u \in Creators, set_id \in SetIds, n \in QuestionCounts :
        games_create_game(u, set_id, n)
  \/ \E u \in Users, g \in GamesOfGames : games_join_game_page(u, g)
  \/ \E s \in Sockets, g \in GamesToConnect : games_ws_connect(s, g)
  \/ \E s \in Sockets, g \in GamesOfGames, m \in ChatMessages : games_ws_chat(s, g, m)
  \/ \E s \in Sockets, g \in GamesOfGames, a \in Answers :
        games_ws_answer_submission(s, g, a)
  \/ \E s \in Sockets, g \in GamesOfGames, c \in Commands : games_ws_game_control(s, g, c)
  \/ \E s \in Sockets, g \in GamesOfGames : games_ws_start_game_resume(s, g)
  \/ \E s \in Sockets, g \in GamesOfGames : games_ws_score_request(s, g)
  \/ \E s \in Sockets, g \in GamesOfGames : games_ws_disconnect(s, g)
  \/ \E u \in Creators, set_id \in SetIds, n \in QuestionCounts, solo \in BOOLEAN :
        cards_create(u, set_id, n, solo)
  \/ \E u \in Users, g \in MultiGames : cards_play_game(u, g)
  \/ \E u \in Users, g \in DOMAIN active_games : cards_start_game(u, g)
  \/ \E u \in Users, g \in DOMAIN active_games : cards_end_game(u, g)
  \/ \E s \in Sockets, g \in CardsToConnect : cards_ws_connect(s, g)
  \/ \E s \in Sockets, g \in MultiGames, m \in ChatMessages : cards_ws_chat(s, g, m)
  \/ \E s \in Sockets, g \in MultiGames, a \in Answers, v \in BOOLEAN :
        (v => a = <<" ">>) /\ cards_ws_answer_submission(s, g, a, v)
  \/ \E s \in Sockets, g \in MultiGames, c \in Commands : cards_ws_game_control(s, g, c)
  \/ \E s \in Sockets, g \in MultiGames : cards_ws_score_request(s, g)
  \/ \E s \in Sockets, g \in MultiGames : cards_ws_disconnect(s, g)
  \/ \E u \in Users, g \in SoloGames : solo_game_in_progress(u, g)
  \/ \E u \in Users, g \in SoloGames, a \in Answers : solo_game_submit_answer(u, g, a)
  \/ \E u \in Users, g \in SoloGames, i \in ClientIndexes : solo_game_next_card(u, g, i)

Spec == Init /\ [][Next]_vars

\* ------------------------------------------------------------------------
\* The registries under repeated creation: sessions are created one after
\* the other, the identifiers drawn from two values per engine
\* ------------------------------------------------------------------------

RegistryIdsOfGames == {"1A2B3C4D", "9F8E7D6C"}

RegistryIdsOfCards == {"123456", "654321"}

NextRegistry ==
  \/ \E c \in CardIds : DeleteCard(c)
  \/ \E u \in Creators, set_id \in SetIds, n \in QuestionCounts :
        games_create(u, set_id, n, RegistryIdsOfGames)
  \/ \E u \in Users, g \in GamesOfGames : games_join_game_page(u, g)
  \/ \E u \in Creators, set_id \in SetIds, n \in QuestionCounts, solo \in BOOLEAN :
        cards_create_in(u, set_id, n, solo, RegistryIdsOfCards)
  \/ \E u \in Users, g \in MultiGames : cards_play_game(u, g)

SpecRegistry == Init /\ [][NextRegistry]_vars

\* ------------------------------------------------------------------------
\* The connections of one session: three users, a second socket for alice,
\* every client can go away; one question, one answer text
\* ------------------------------------------------------------------------

NextConnections ==
  \/ \E s \in AllSockets : Drop(s)
  \/ \E u \in Creators : games_create_game(u, TheSet, 1)
  \/ \E u \in Peers, g \in GamesOfGames : games_join_game_page(u, g)
  \/ \E s \in AllSockets, g \in GamesOfGames : games_ws_connect(s, g)
  \/ \E s \in AllSockets, g \in GamesOfGames : games_ws_answer_submission(s, g, <<"x">>)
  \/ \E s \in AllSockets, g \in GamesOfGames : games_ws_game_control(s, g, "start_game")
  \/ \E s \in AllSockets, g \in GamesOfGames : games_ws_start_game_resume(s, g)
  \/ \E s \in AllSockets, g \in GamesOfGames : games_ws_disconnect(s, g)
  \/ \E u \in Creators : cards_create(u, TheSet, 1, FALSE)
  \/ \E u \in Peers, g \in MultiGames : cards_play_game(u, g)
  \/ \E u \in Creators, g \in MultiGames : cards_start_game(u, g)
  \/ \E s \in AllSockets, g \in MultiGames : cards_ws_connect(s, g)
  \/ \E s \in AllSockets, g \in MultiGames :
        cards_ws_answer_submission(s, g, <<"x">>, FALSE)
  \/ \E s \in AllSockets, g \in MultiGames : cards_ws_disconnect(s, g)

SpecConnections == Init /\ [][NextConnections]_vars

\* ------------------------------------------------------------------------
\* A card set with more cards than the cap of create_game: creation and the
\* advance through the questions, no card is deleted
\* ------------------------------------------------------------------------

LargeSet == 1..(HardCap + 1)

InitLargeSet ==
  /\ db_cards = LargeSet
  /\ ACTIVE_GAMES = <<>>
  /\ active_games = <<>>
  /\ score_boards = <<>>
  /\ manager = <<>>
  /\ ws = [s \in AllSockets |-> "closed"]
  /\ pc = [s \in AllSockets |-> "recv"]
  /\ last = Op("init", "", "", <<>>, "")
  /\ delivered = NothingDelivered
  /\ graded = NothingGraded
  /\ fanout = NoFanOut

NextLargeSet ==
  \/ \E u \in Creators, set_id \in SetIds, n \in QuestionCounts :
        games_create_game(u, set_id, n)
  \/ \E u \in Users, g \in GamesOfGames : games_join_game_page(u, g)
  \/ \E u \in Creators, set_id \in SetIds, n \in QuestionCounts, solo \in BOOLEAN :
        cards_create(u, set_id, n, solo)
  \/ \E u \in Users, g \in MultiGames : cards_play_game(u, g)
  \/ \E u \in Creators, g \in MultiGames : cards_start_game(u, g)
  \/ \E s \in Sockets, g \in MultiGames : cards_ws_connect(s, g)
  \/ \E s \in Sockets, g \in MultiGames :
        cards_ws_game_control(s, g, "request_next_card")
  \/ \E u \in Creators, g \in SoloGames : solo_game_in_progress(u, g)
  \/ \E u \in Creators, g \in SoloGames, i \in ClientIndexes :
        solo_game_next_card(u, g, i)

SpecLargeSet == InitLargeSet /\ [][NextLargeSet]_vars

\* ------------------------------------------------------------------------
\* A solo game played in order: the owner answers the question that is
\* presented (an empty submission is refused and repeated), asks for the next
\* card with the index the game is at, and so on; no card is deleted
\* ------------------------------------------------------------------------

\* the question presented has not been answered yet
SoloQuestionOpen == last.reply \in {"303", "success card", "400 missing"}

\* the question presented has just been answered
SoloQuestionAnswered == last.op = "solo_answer" /\ last.reply \in {"correct", "half", "wrong"}

NextSolo ==
  \/ \E u \in Users, set_id \in SetIds, n \in QuestionCounts :
        cards_create(u, set_id, n, TRUE)
  \/ \E g \in SoloGames, a \in Answers :
        SoloQuestionOpen /\ solo_game_submit_answer(active_games[g].creator_id, g, a)
  \/ \E g \in SoloGames :
        /\ SoloQuestionAnswered
        /\ solo_game_next_card(active_games[g].creator_id, g,
                               active_games[g].current_card_index)

SpecSolo == Init /\ [][NextSolo]_vars

\* ------------------------------------------------------------------------
\* The graders on their own: a pair of texts is drawn, and both copies of
\* grade_answer are applied to it
\* ------------------------------------------------------------------------

\* the texts of at most n characters over an alphabet
Texts(alphabet, n) == UNION { [1..k -> alphabet] : k \in 0..n }

AnswerTexts == Texts({"a", "b", "A", " ", "!", "-"}, MaxAnswerLen)

ReferenceTexts == Texts({"a", "b", "x", " ", "!"}, MaxReferenceLen)

InitGrader ==
  /\ db_cards = CardIds
  /\ ACTIVE_GAMES = <<>>
  /\ active_games = <<>>
  /\ score_boards = <<>>
  /\ manager = <<>>
  /\ ws = [s \in AllSockets |-> "closed"]
  /\ pc = [s \in AllSockets |-> "recv"]
  /\ \E u \in AnswerTexts, r \in ReferenceTexts :
        last = [op |-> "grade_answer", user_answer |-> u, correct_answer |-> r]
  /\ delivered = NothingDelivered
  /\ graded = NothingGraded
  /\ fanout = NoFanOut

\* grade_answer of games.py and of cards.py, applied to the pair drawn
GradeAnswer ==
  /\ last.op = "grade_answer"
  /\ last' = [ op             |-> "grade_answer returned",
               user_answer    |-> last.user_answer,
               correct_answer |-> last.correct_answer,
               games          |-> games_grade_answer(last.user_answer, last.correct_answer),
               cards          |-> cards_grade_answer(last.user_answer, last.correct_answer) ]
  /\ UNCHANGED << db_cards, graded, fanout, gamesVars, cardsVars, ws, pc, delivered >>

NextGrader == GradeAnswer

SpecGrader == InitGrader /\ [][NextGrader]_vars

\* ------------------------------------------------------------------------
\* A broadcast send by send: the chat broadcast of a handler is suspended at
\* each await of a send, and connects and disconnects of other sockets run
\* in between.  While a broadcast of cards.py is suspended the registry is
\* changed at most once, and a socket that was registered when a broadcast
\* began is not opened anew before the broadcast has ended.
\* ------------------------------------------------------------------------

\* what each socket has received from the broadcast in progress
Reached(reached, msg) == [s \in AllSockets |-> IF s \in reached THEN <<msg>> ELSE <<>>]

\* the sockets of the items of a registry of cards.py
SocketsOf(conns) == { conns[i].ws : i \in 1..Len(conns) }

\* the registry has not changed since the suspended broadcast of cards.py began
RegistryAsBegan ==
  fanout.engine = "cards" => cards_connections(manager, fanout.game) = fanout.entries

\* games.py 250-260, 117-120: the chat branch up to the await of the first
\* send of broadcast_game_message, connections_to_send being a copy of the
\* values; with nobody registered the broadcast is over at once
games_broadcast_begin(s, game_id) ==
  /\ games_receiving(s, game_id)
  /\ fanout = NoFanOut
  /\ LET registered == games_registered(ACTIVE_GAMES[game_id]) IN
     IF registered = {}
     THEN games_ws_chat(s, game_id, <<"a">>)
     ELSE \E t \in registered :
            /\ fanout' = FanOut("games", s, game_id, registered \ {t}, <<>>, 1, registered,
                                IF ws[t] = "open" THEN {t} ELSE {})
            /\ pc' = [pc EXCEPT ![s] = "broadcast"]
            /\ last' = Op("chat", UserOf(s), "text", <<"chat_message">>, "suspended")
            /\ delivered' = DeliverTo({t}, <<"chat_message">>, ws)
            /\ UNCHANGED << db_cards, graded, gamesVars, cardsVars, ws >>

\* games.py 118-123: one turn of the loop over connections_to_send; a send
\* that raises is passed over
games_broadcast_resume ==
  /\ fanout.engine = "games"
  /\ IF fanout.todo = {}
     THEN /\ fanout' = NoFanOut
          /\ pc' = [pc EXCEPT ![fanout.by] = "recv"]
          /\ last' = Op("broadcast", UserOf(fanout.by), "chat_message", <<>>, "completed")
          /\ delivered' = Reached(fanout.reached, "chat_message")
     ELSE \E t \in fanout.todo :
            /\ fanout' = [fanout EXCEPT
                            !.todo = @ \ {t},
                            !.pos = @ + 1,
                            !.reached = IF ws[t] = "open" THEN @ \cup {t} ELSE @]
            /\ last' = Op("send", UserOf(fanout.by), t, <<>>, "")
            /\ delivered' = DeliverTo({t}, <<"chat_message">>, ws)
            /\ UNCHANGED pc
  /\ UNCHANGED << db_cards, graded, gamesVars, cardsVars, ws >>

\* cards.py 579-589, 57-62: the chat branch up to the await of the first send
\* of ConnectionManager.broadcast, whose loop runs over
\* active_connections[game_id].values(); with nobody registered, or when the
\* first send raises, the broadcast is over at once
cards_broadcast_begin(s, game_id) ==
  /\ cards_receiving(s, game_id)
  /\ ~active_games[game_id].is_solo
  /\ fanout = NoFanOut
  /\ LET conns == cards_connections(manager, game_id) IN
     IF conns = <<>> \/ ws[conns[1].ws] # "open"
     THEN cards_ws_chat(s, game_id, <<"a">>)
     ELSE /\ fanout' = FanOut("cards", s, game_id, {}, conns, 1, SocketsOf(conns),
                              {conns[1].ws})
          /\ pc' = [pc EXCEPT ![s] = "broadcast"]
          /\ last' = Op("chat", UserOf(s), "text", <<"chat_message">>, "suspended")
          /\ delivered' = DeliverTo({conns[1].ws}, <<"chat_message">>, ws)
          /\ UNCHANGED << db_cards, graded, gamesVars, cardsVars, ws >>

\* cards.py 59-62: the next turn of the loop.  The iterator of the dict first
\* compares the dict's size with the size it began with and raises
\* RuntimeError when they differ; then it ends, or returns the next value and
\* the message is sent to it.  An exception leaves the handler through one of
\* its except clauses (lines 670-680).
cards_broadcast_resume ==
  /\ fanout.engine = "cards"
  /\ LET s     == fanout.by
         conns == cards_connections(manager, fanout.game)
         user  == UserOf(s)
     IN  IF Len(conns) # Len(fanout.entries)
         THEN /\ ws' = [ws EXCEPT ![s] = "dead"]
              /\ last' = Op("broadcast", user, "chat_message", <<>>, "RuntimeError")
              /\ delivered' = Reached(fanout.reached, "chat_message")
              /\ fanout' = NoFanOut
              /\ pc' = [pc EXCEPT ![s] = "recv"]
              /\ UNCHANGED manager
         ELSE IF fanout.pos >= Len(conns)
         THEN /\ last' = Op("broadcast", user, "chat_message", <<>>, "completed")
              /\ delivered' = Reached(fanout.reached, "chat_message")
              /\ fanout' = NoFanOut
              /\ pc' = [pc EXCEPT ![s] = "recv"]
              /\ UNCHANGED << manager, ws >>
         ELSE LET t == conns[fanout.pos + 1].ws IN
              IF ws[t] = "open"
              THEN /\ fanout' = [fanout EXCEPT !.pos = @ + 1, !.reached = @ \cup {t}]
                   /\ last' = Op("send", user, t, <<>>, "")
                   /\ delivered' = DeliverTo({t}, <<"chat_message">>, ws)
                   /\ UNCHANGED << manager, ws, pc >>
              ELSE /\ last' = Op("broadcast", user, "chat_message", <<>>, "send raised")
                   /\ delivered' = Reached(fanout.reached, "chat_message")
                   /\ fanout' = NoFanOut
                   /\ pc' = [pc EXCEPT ![s] = "recv"]
                   /\ \E exception \in {"WebSocketDisconnect", "Exception"} :
                        IF exception = "WebSocketDisconnect"
                        THEN /\ manager' = manager_disconnect(manager, fanout.game, user)
                             /\ ws' = [ws EXCEPT ![s] = "closed"]
                        ELSE /\ ws' = [ws EXCEPT ![s] = "dead"]
                             /\ UNCHANGED manager
  /\ UNCHANGED << db_cards, graded, gamesVars, active_games, score_boards >>

\* the sockets whose handler is not inside the suspended broadcast
Idle == AllSockets \ {fanout.by}

\* the sockets on which a connection can be opened
Fresh == AllSockets \ fanout.began

NextFanOut ==
  \/ \E s \in AllSockets : Drop(s)
  \/ \E u \in Creators : games_create_game(u, TheSet, 1)
  \/ \E u \in Peers, g \in GamesOfGames : games_join_game_page(u, g)
  \/ \E s \in Fresh, g \in GamesOfGames : games_ws_connect(s, g)
  \/ \E s \in Idle, g \in GamesOfGames : games_ws_disconnect(s, g)
  \/ \E s \in AllSockets, g \in GamesOfGames : games_broadcast_begin(s, g)
  \/ games_broadcast_resume
  \/ \E u \in Creators : cards_create(u, TheSet, 1, FALSE)
  \/ \E u \in Peers, g \in MultiGames : cards_play_game(u, g)
  \/ \E s \in Fresh, g \in MultiGames : RegistryAsBegan /\ cards_ws_connect(s, g)
  \/ \E s \in Idle, g \in MultiGames : RegistryAsBegan /\ cards_ws_disconnect(s, g)
  \/ \E s \in AllSockets, g \in MultiGames : cards_broadcast_begin(s, g)
  \/ cards_broadcast_resume

SpecFanOut == Init /\ [][NextFanOut]_vars

\* ------------------------------------------------------------------------
\* The advance through the questions: one session, its controller keeps
\* asking for the next question while cards are deleted, pages are loaded and
\* the other player answers; no client goes away and a session is started once
\* ------------------------------------------------------------------------

\* the question counts asked for at creation
AdvanceCounts == { n \in QuestionCounts : n <= NumCards }

\* the creator of a games.py session sends request_next_card, or the handler
\* that started the game goes on after its broadcast
GamesAdvance ==
  \E s \in Sockets, g \in GamesOfGames :
    /\ games_is_creator(ACTIVE_GAMES[g], UserOf(s))
    /\ \/ games_ws_game_control(s, g, "request_next_card")
       \/ games_ws_start_game_resume(s, g)

\* the creator of a cards.py multiplayer session opens the websocket, or
\* sends request_next_card on it
CardsAdvance ==
  \E s \in Sockets, g \in MultiGames :
    /\ cards_is_creator(active_games[g], UserOf(s))
    /\ \/ cards_ws_connect(s, g)
       \/ cards_ws_game_control(s, g, "request_next_card")

\* the owner of a solo session posts next with the index the session is at,
\* the one the page or the previous next returned
SoloAdvance ==
  \E g \in SoloGames :
    solo_game_next_card(active_games[g].creator_id, g, active_games[g].current_card_index)

NextAdvance ==
  \/ \E c \in CardIds : DeleteCard(c)
  \/ \E u \in Creators, n \in AdvanceCounts : games_create_game(u, TheSet, n)
  \/ \E u \in Users, g \in GamesOfGames : games_join_game_page(u, g)
  \/ \E s \in Sockets, g \in GamesOfGames : games_ws_connect(s, g)
  \/ \E s \in Sockets, g \in GamesOfGames :
        /\ ~games_is_creator(ACTIVE_GAMES[g], UserOf(s))
        /\ games_ws_answer_submission(s, g, <<"x">>)
  \/ \E s \in Sockets, g \in GamesOfGames : games_ws_game_control(s, g, "start_game")
  \/ \E s \in Sockets, g \in GamesOfGames :
        /\ ~games_is_creator(ACTIVE_GAMES[g], UserOf(s))
        /\ games_ws_game_control(s, g, "request_next_card")
  \/ GamesAdvance
  \/ \E u \in Creators, n \in AdvanceCounts, solo \in BOOLEAN :
        cards_create(u, TheSet, n, solo)
  \/ \E u \in Users, g \in MultiGames : cards_play_game(u, g)
  \/ \E u \in Users, g \in MultiGames :
        active_games[g].state = "WAITING" /\ cards_start_game(u, g)
  \/ \E s \in Sockets, g \in MultiGames :
        /\ ~cards_is_creator(active_games[g], UserOf(s))
        /\ \/ cards_ws_connect(s, g)
           \/ cards_ws_game_control(s, g, "request_next_card")
  \/ CardsAdvance
  \/ \E g \in SoloGames : solo_game_in_progress(active_games[g].creator_id, g)
  \/ \E g \in SoloGames :
        solo_game_submit_answer(active_games[g].creator_id, g, <<"x">>)
  \/ SoloAdvance

\* the controller of a session that is under way keeps asking for the next
\* question
SpecAdvance ==
  /\ Init
  /\ [][NextAdvance]_vars
  /\ WF_vars(GamesAdvance)
  /\ WF_vars(CardsAdvance)
  /\ WF_vars(SoloAdvance)

\* ------------------------------------------------------------------------
\* Properties
\* ------------------------------------------------------------------------

\* the events that announce the end of a session
FinishEvents == {"game_end", "game_status_update FINISHED"}

\* the operation `op` emitted the event `msg`
Emits(op, msg) == \E i \in 1..Len(op.emitted) : op.emitted[i] = msg

\* the counters and grades of the players of a games.py session stay as they are
GamesScoresKept(g) ==
  \A u \in DOMAIN ACTIVE_GAMES[g].score_board :
    ACTIVE_GAMES'[g].score_board[u] = ACTIVE_GAMES[g].score_board[u]

\* C1: once a session's status is FINISHED, no later operation changes its
\* status, its question index or current card, any player's counters or
\* grade, or the solo score.
C1_FinishedIsFinal ==
  [][ /\ \A g \in DOMAIN ACTIVE_GAMES :
           ACTIVE_GAMES[g].status = "FINISHED" =>
             /\ ACTIVE_GAMES'[g].status = "FINISHED"
             /\ ACTIVE_GAMES'[g].current_question_count
                  = ACTIVE_GAMES[g].current_question_count
             /\ ACTIVE_GAMES'[g].current_card = ACTIVE_GAMES[g].current_card
             /\ GamesScoresKept(g)
      /\ \A g \in DOMAIN active_games :
           active_games[g].state = "FINISHED" =>
             /\ active_games'[g].state = "FINISHED"
             /\ active_games'[g].current_card_index = active_games[g].current_card_index
             /\ active_games'[g].score = active_games[g].score
             /\ score_boards' = score_boards
    ]_vars

\* C2: when a player's answer_submission has just been scored, a further
\* answer_submission by the same player before any question advance leaves
\* every scoreboard entry unchanged and broadcasts no answer_result.
C2_OneScoredAnswerPerRound ==
  [][ ( /\ last.op = "answer_submission"
        /\ Emits(last, "answer_result")
        /\ last'.op = "answer_submission"
        /\ last'.by = last.by )
      => /\ ~Emits(last', "answer_result")
         /\ score_boards' = score_boards
         /\ \A g \in DOMAIN ACTIVE_GAMES :
              ACTIVE_GAMES'[g].score_board = ACTIVE_GAMES[g].score_board
    ]_vars

\* C3: a broadcast reaches every registered connection that can still
\* receive, whatever happens to the sends to the others, and the handler
\* that triggered it keeps running (here: the broadcast of a chat text).
C3_BroadcastBestEffort ==
  (last.op = "chat" /\ last.arg = "text") =>
    /\ \A g \in DOMAIN ACTIVE_GAMES :
         \A s \in games_registered(ACTIVE_GAMES[g]) :
           ws[s] = "open" => delivered[s] = <<"chat_message">>
    /\ \A g \in DOMAIN manager :
         \A i \in 1..Len(manager[g]) :
           ws[manager[g][i].ws] = "open" => delivered[manager[g][i].ws] = <<"chat_message">>
    /\ \E s \in Sockets : UserOf(s) = last.by /\ ws[s] = "open"

\* C4: a start request changes a session's status or question index only
\* when the creator issues it while the session is in LOBBY/WAITING; a start
\* on an ACTIVE or FINISHED session leaves status and index unchanged.
C4_StartOnlyFromLobbyByCreator ==
  [][ /\ \A g \in DOMAIN ACTIVE_GAMES :
           ( /\ last'.op = "game_control"
             /\ last'.arg = "start_game"
             /\ ~( last'.by = ACTIVE_GAMES[g].creator_username
                   /\ ACTIVE_GAMES[g].status = "LOBBY" ) )
           => /\ ACTIVE_GAMES'[g].status = ACTIVE_GAMES[g].status
              /\ ACTIVE_GAMES'[g].current_question_count
                   = ACTIVE_GAMES[g].current_question_count
      /\ \A g \in DOMAIN active_games :
           ( /\ ~active_games[g].is_solo
             /\ last'.op = "start_game"
             /\ ~( last'.by = active_games[g].creator_id
                   /\ active_games[g].state = "WAITING" ) )
           => /\ active_games'[g].state = active_games[g].state
              /\ active_games'[g].current_card_index = active_games[g].current_card_index
    ]_vars

\* C5: within one session the question index (current_question_count,
\* current_card_index) never decreases, in solo and in multiplayer mode.
C5_IndexNeverDecreases ==
  [][ /\ \A g \in DOMAIN ACTIVE_GAMES :
           ACTIVE_GAMES'[g].current_question_count
             >= ACTIVE_GAMES[g].current_question_count
      /\ \A g \in DOMAIN active_games :
           active_games'[g].current_card_index >= active_games[g].current_card_index
    ]_vars

\* C6: once a finish event has been emitted for a session, the operation
\* that follows emits no new_card for it.
C6_NoCardAfterFinish ==
  [][ (\E e \in FinishEvents : Emits(last, e)) => ~Emits(last', "new_card") ]_vars

C8_NonCreatorControlGetsError ==
  /\ \A g \in DOMAIN ACTIVE_GAMES :
       (last.op = "game_control" /\ last.by # ACTIVE_GAMES[g].creator_username)
       => \A s \in Sockets :
            delivered[s] = IF UserOf(s) = last.by THEN <<"error">> ELSE <<>>
  /\ \A g \in DOMAIN active_games :
       (last.op = "game_control" /\ last.by # active_games[g].creator_id)
       => \A s \in Sockets :
            delivered[s] = IF UserOf(s) = last.by THEN <<"error">> ELSE <<>>

\* an answer submission that leaves every score, grade and answered mark of
\* the session g of games.py as it was and broadcasts no answer_result
GamesAnswerRejected(g) ==
  /\ ACTIVE_GAMES'[g].score_board = ACTIVE_GAMES[g].score_board
  /\ ACTIVE_GAMES'[g].answered_users = ACTIVE_GAMES[g].answered_users
  /\ ~Emits(last', "answer_result")

\* the same for the session g of cards.py
CardsAnswerRejected(g) ==
  /\ score_boards' = score_boards
  /\ active_games'[g].score = active_games[g].score
  /\ ~Emits(last', "answer_result")

\* C9, as stated: an answer submission processed while the session is not
\* ACTIVE changes no counter, grade, answered mark or solo score, broadcasts
\* no answer_result, and in solo mode returns the 'not in progress' error.
C9_AsStated ==
  [][ /\ \A g \in DOMAIN ACTIVE_GAMES :
           (last'.op = "answer_submission" /\ ACTIVE_GAMES[g].status # "ACTIVE")
           => GamesAnswerRejected(g)
      /\ \A g \in DOMAIN active_games :
           ( /\ last'.op \in {"answer_submission", "solo_answer"}
             /\ active_games[g].state # "IN_PROGRESS" )
           => /\ CardsAnswerRejected(g)
              /\ last'.op = "solo_answer" => last'.reply = "400 not in progress"
    ]_vars

\* C9, amended: an answer submission processed while the session is not
\* ACTIVE changes no counter, grade, answered mark or solo score and
\* broadcasts no answer_result; in solo mode the owner's submission that
\* carries answer text returns the 'not in progress' error.
C9_AnswerOutsideActiveRejected ==
  [][ /\ \A g \in DOMAIN ACTIVE_GAMES :
           (last'.op = "answer_submission" /\ ACTIVE_GAMES[g].status # "ACTIVE")
           => GamesAnswerRejected(g)
      /\ \A g \in DOMAIN active_games :
           ( /\ last'.op \in {"answer_submission", "solo_answer"}
             /\ active_games[g].state # "IN_PROGRESS" )
           => /\ CardsAnswerRejected(g)
              /\ ( /\ last'.op = "solo_answer"
                   /\ last'.by = active_games[g].creator_id
                   /\ last'.arg = "text" )
                 => last'.reply = "400 not in progress"
    ]_vars

\* C9, its case: the owner of a finished solo session that holds points has
\* just submitted an answer text and was told the game is not in progress.
C9_Witness ==
  \E g \in DOMAIN active_games :
    /\ active_games[g].is_solo
    /\ active_games[g].state = "FINISHED"
    /\ active_games[g].score > 0
    /\ last.op = "solo_answer"
    /\ last.arg = "text"
    /\ last.reply = "400 not in progress"

\* C10: an answer submission that carries no answer text and no other
\* accepted flag increments no counter, marks nobody as having answered and
\* broadcasts no answer_result.
C10_EmptyAnswerRejected ==
  [][ /\ \A g \in DOMAIN ACTIVE_GAMES :
           (last'.op = "answer_submission" /\ last'.arg = "empty")
           => GamesAnswerRejected(g)
      /\ \A g \in DOMAIN active_games :
           (last'.op \in {"answer_submission", "solo_answer"} /\ last'.arg = "empty")
           => CardsAnswerRejected(g)
    ]_vars

\* C11: while a session remains ACTIVE no page presents an absent card, and
\* no handler crashes on an absent card.
C11_NoAbsentCardWhileActive ==
  /\ \A g \in DOMAIN active_games :
       active_games[g].state = "IN_PROGRESS" => last.reply # "in_progress no card"
  /\ \A g \in DOMAIN ACTIVE_GAMES :
       last.op = "answer_submission" => last.reply # "exception"

\* C12: creating a game never replaces or removes a session already in the
\* registry: every session registered before a creation is there, as it
\* was, after it.
C12_CreateKeepsSessions ==
  [][ last'.op \in {"create_game", "solo_start"} =>
        /\ \A g \in DOMAIN ACTIVE_GAMES :
             g \in DOMAIN ACTIVE_GAMES' /\ ACTIVE_GAMES'[g] = ACTIVE_GAMES[g]
        /\ \A g \in DOMAIN active_games :
             g \in DOMAIN active_games' /\ active_games'[g] = active_games[g]
    ]_vars

\* the user is a participant of the session there is
Participant(u) ==
  \/ \E g \in DOMAIN ACTIVE_GAMES : u \in DOMAIN ACTIVE_GAMES[g].score_board
  \/ \E g \in DOMAIN active_games : u \in active_games[g].players

\* the socket is registered for some session
Registered(s) ==
  \/ \E g \in DOMAIN ACTIVE_GAMES : s \in games_registered(ACTIVE_GAMES[g])
  \/ \E g \in DOMAIN manager : \E i \in 1..Len(manager[g]) : manager[g][i].ws = s

\* C13: every registered connection belongs to a participant of its session,
\* which exists; a connection attempt by somebody who is not a participant of
\* an existing session is refused with close code 1008 and is not registered.
C13_OnlyParticipantsRegistered ==
  /\ \A g \in DOMAIN ACTIVE_GAMES :
       \A u \in DOMAIN ACTIVE_GAMES[g].active_connections :
         u \in DOMAIN ACTIVE_GAMES[g].score_board
  /\ \A g \in DOMAIN manager :
       /\ g \in DOMAIN active_games
       /\ \A i \in 1..Len(manager[g]) :
            manager[g][i].client_id \in active_games[g].players
  /\ (last.op = "connect" /\ ~Participant(last.by)) =>
       /\ last.reply = "close 1008"
       /\ \A s \in Sockets : UserOf(s) = last.by => ~Registered(s) /\ ws[s] = "closed"

\* C13, its case: while a participant is connected to a games.py session,
\* somebody who has not joined it has just been refused with close code 1008.
C13_Witness ==
  \E g \in DOMAIN ACTIVE_GAMES :
    /\ DOMAIN ACTIVE_GAMES[g].active_connections # {}
    /\ last.op = "connect"
    /\ last.by \notin DOMAIN ACTIVE_GAMES[g].score_board
    /\ last.reply = "close 1008"

\* the fields of a games.py session that a connection must not touch
GamesSessionKept(g) ==
  /\ ACTIVE_GAMES'[g].status = ACTIVE_GAMES[g].status
  /\ ACTIVE_GAMES'[g].current_question_count = ACTIVE_GAMES[g].current_question_count
  /\ ACTIVE_GAMES'[g].current_card = ACTIVE_GAMES[g].current_card
  /\ ACTIVE_GAMES'[g].answered_users = ACTIVE_GAMES[g].answered_users
  /\ ACTIVE_GAMES'[g].score_board = ACTIVE_GAMES[g].score_board

\* the same for a cards.py session
CardsSessionKept(g) ==
  /\ active_games'[g].state = active_games[g].state
  /\ active_games'[g].current_card_index = active_games[g].current_card_index
  /\ active_games'[g].score = active_games[g].score
  /\ score_boards' = score_boards

\* the client ids registered for a cards.py session, in the registry's order
RegisteredIds(conns) == [i \in 1..Len(conns) |-> conns[i].client_id]

\* C14: a player has at most one registered connection per game; a connect
\* by a player who is already registered replaces the registered handle by
\* the new socket and leaves status, question index, current card, answered
\* set and scoreboard unchanged.
C14_ReconnectReplacesHandle ==
  [][ /\ \A g \in DOMAIN manager' :
           \A i, j \in 1..Len(manager'[g]) :
             manager'[g][i].client_id = manager'[g][j].client_id => i = j
      /\ \A g \in DOMAIN ACTIVE_GAMES :
           ( /\ last'.op = "connect"
             /\ last'.reply = "accept"
             /\ last'.by \in DOMAIN ACTIVE_GAMES[g].active_connections )
           => /\ DOMAIN ACTIVE_GAMES'[g].active_connections
                   = DOMAIN ACTIVE_GAMES[g].active_connections
              /\ ACTIVE_GAMES'[g].active_connections[last'.by]
                   # ACTIVE_GAMES[g].active_connections[last'.by]
              /\ ws[ACTIVE_GAMES'[g].active_connections[last'.by]] = "closed"
              /\ ws'[ACTIVE_GAMES'[g].active_connections[last'.by]] = "open"
              /\ GamesSessionKept(g)
      /\ \A g \in DOMAIN manager :
           ( /\ last'.op = "connect"
             /\ last'.reply = "accept"
             /\ \E i \in 1..Len(manager[g]) : manager[g][i].client_id = last'.by )
           => /\ RegisteredIds(manager'[g]) = RegisteredIds(manager[g])
              /\ \A i \in 1..Len(manager[g]) :
                   IF manager[g][i].client_id = last'.by
                   THEN /\ manager'[g][i].ws # manager[g][i].ws
                        /\ ws[manager'[g][i].ws] = "closed"
                        /\ ws'[manager'[g][i].ws] = "open"
                   ELSE manager'[g][i] = manager[g][i]
              /\ CardsSessionKept(g)
    ]_vars

\* C14, its case: alice has just connected a second socket to a running
\* cards.py session that holds scores while her first socket is still open;
\* the registry holds the second socket for her.
C14_Witness ==
  \E g \in DOMAIN manager :
    /\ last.op = "connect"
    /\ last.reply = "accept"
    /\ last.by = "alice"
    /\ ws["a1"] = "open"
    /\ \E i \in 1..Len(manager[g]) : manager[g][i] = [client_id |-> "alice", ws |-> "a2"]
    /\ active_games[g].state = "IN_PROGRESS"
    /\ cards_board(g) # <<>>

\* C15: when a dropped connection is handled, the player's handle is removed
\* from the session's registry, the disconnect notification reaches every
\* connection that remains registered and can receive, and status, question
\* index, answered set and scoreboard stay as they were.
C15_DisconnectNotifiesPeers ==
  [][ last'.op = "disconnect" =>
        /\ \A g \in DOMAIN ACTIVE_GAMES :
             /\ last'.by \notin DOMAIN ACTIVE_GAMES'[g].active_connections
             /\ \A s \in games_registered(ACTIVE_GAMES'[g]) :
                  ws'[s] = "open" => delivered'[s] = <<"chat_message">>
             /\ GamesSessionKept(g)
        /\ \A g \in DOMAIN manager :
             /\ \A i \in 1..Len(manager'[g]) :
                  /\ manager'[g][i].client_id # last'.by
                  /\ ws'[manager'[g][i].ws] = "open"
                       => delivered'[manager'[g][i].ws] = <<"chat_message">>
             /\ CardsSessionKept(g)
    ]_vars

\* every scoreboard entry there is, of either engine
ScoreEntries ==
  UNION { Range(ACTIVE_GAMES[g].score_board) : g \in DOMAIN ACTIVE_GAMES }
    \cup UNION { Range(score_boards[g]) : g \in DOMAIN score_boards }

\* C16: for every entry of every scoreboard, grade = 5.0*correct + 2.5*half
\* (in tenths: 50*correct + 25*half), and two entries with equal counters have
\* equal grade.
C16_GradeFromCounters ==
  /\ \A e \in ScoreEntries :
       e.grade = POINTS_CORRECT * e.correct + POINTS_HALF * e.half
  /\ \A e1, e2 \in ScoreEntries :
       (e1.correct = e2.correct /\ e1.half = e2.half /\ e1.wrong = e2.wrong)
       => e1.grade = e2.grade

\* C16, its case: an entry that has counted a correct and a half answer.
C16_Witness ==
  \E e \in ScoreEntries : e.correct >= 1 /\ e.half >= 1

\* C17: in a multiplayer session a player has a scoreboard entry if and only
\* if the player has joined; the creator has one from creation.
C17_EntryIffJoined ==
  /\ \A g \in DOMAIN ACTIVE_GAMES :
       /\ ACTIVE_GAMES[g].creator_username \in DOMAIN ACTIVE_GAMES[g].score_board
       /\ DOMAIN ACTIVE_GAMES[g].active_connections \subseteq DOMAIN ACTIVE_GAMES[g].score_board
  /\ \A g \in MultiGames :
       DOMAIN cards_board(g) = active_games[g].players

\* C18: a page load (join) resets nobody's entry; by a player who is already
\* in the session it leaves the roster and the scoreboard as they are; and a
\* join that follows a join of the same player changes nothing at all.
C18_JoinIdempotent ==
  [][ last'.op = "page" =>
        /\ \A g \in DOMAIN ACTIVE_GAMES :
             /\ GamesScoresKept(g)
             /\ DOMAIN ACTIVE_GAMES'[g].score_board
                  = DOMAIN ACTIVE_GAMES[g].score_board \cup {last'.by}
             /\ last'.by \in DOMAIN ACTIVE_GAMES[g].score_board
                  => ACTIVE_GAMES'[g] = ACTIVE_GAMES[g]
        /\ \A g \in MultiGames :
             /\ score_boards' = score_boards
             /\ active_games'[g].players = active_games[g].players \cup {last'.by}
             /\ (last.op = "page" /\ last.by = last'.by)
                  => active_games'[g] = active_games[g]
    ]_vars

\* C18, its case: a player of a games.py session who is not the creator and
\* has already scored has just loaded the game page again.
C18_Witness ==
  \E g \in DOMAIN ACTIVE_GAMES :
    /\ last.op = "page"
    /\ last.by # ACTIVE_GAMES[g].creator_username
    /\ last.by \in DOMAIN ACTIVE_GAMES[g].score_board
    /\ ACTIVE_GAMES[g].score_board[last.by].grade > 0

\* C19: every created game has at least one question (max_questions,
\* questions_limit >= 1), whatever count was requested.
C19_AtLeastOneQuestion ==
  /\ \A g \in DOMAIN ACTIVE_GAMES : ACTIVE_GAMES[g].max_questions >= 1
  /\ \A g \in DOMAIN active_games : active_games[g].questions_limit >= 1

\* the number of cards of the selected set, and the bound on a game's questions
SetSize == Cardinality(db_cards)

QuestionBound == Min(SetSize, HardCap)

\* C20: a created game has max_questions (questions_limit) at most
\* min(set size, 50); a request larger than the size of a set that is no
\* larger than the cap yields max_questions equal to the set size.
C20_AtMostSetSizeAndCap ==
  [][ (last'.op \in {"create_game", "solo_start"} /\ last'.reply = "303") =>
        /\ \A g \in DOMAIN ACTIVE_GAMES' \ DOMAIN ACTIVE_GAMES :
             ACTIVE_GAMES'[g].max_questions <= QuestionBound
        /\ \A g \in DOMAIN active_games' \ DOMAIN active_games :
             /\ active_games'[g].questions_limit <= QuestionBound
             /\ Len(active_games'[g].card_ids) <= QuestionBound
    ]_vars

\* C21: creating a game against an unknown set, or against a set that has
\* no cards, is answered with an error and leaves both session registries
\* (and the scoreboards) exactly as they were: no session is registered.
C21_FailedCreateKeepsRegistry ==
  [][ ( /\ last'.op \in {"create_game", "solo_start"}
        /\ (last'.arg # SetArg(TheSet) \/ db_cards = {}) )
      => /\ last'.reply \in {"400 invalid set", "400 no cards", "400 empty set"}
         /\ ACTIVE_GAMES' = ACTIVE_GAMES
         /\ active_games' = active_games
         /\ score_boards' = score_boards
    ]_vars

\* C21, its case: while sessions are registered in both engines and the set
\* has lost its cards, a creation has just been refused.
C21_Witness ==
  /\ DOMAIN ACTIVE_GAMES # {}
  /\ DOMAIN active_games # {}
  /\ db_cards = {}
  /\ last.op \in {"create_game", "solo_start"}
  /\ last.reply \in {"400 no cards", "400 empty set"}

\* C22: an end request of the creator on a multiplayer session that is not
\* FINISHED sets its state to FINISHED and delivers game_end to every
\* registered connection that can receive; an end request of any other user
\* is answered 403, delivers nothing and leaves the session as it was.
C22_EndByCreatorFinishesAndNotifies ==
  [][ \A g \in MultiGames :
        last'.op = "end_game" =>
          IF last'.by = active_games[g].creator_id
          THEN active_games[g].state # "FINISHED" =>
                 /\ active_games'[g].state = "FINISHED"
                 /\ \A i \in 1..Len(cards_connections(manager, g)) :
                      ws[manager[g][i].ws] = "open"
                        => delivered'[manager[g][i].ws] = <<"game_end">>
          ELSE /\ last'.reply = "403"
               /\ delivered' = NothingDelivered
               /\ active_games' = active_games
               /\ score_boards' = score_boards
               /\ manager' = manager
    ]_vars

\* C23: a score_request is answered with a score_update that carries the
\* session's current scoreboard and is delivered on the requesting socket
\* only; no other socket receives anything, and the sessions, the
\* scoreboards, the registries and the sockets stay exactly as they were.
C23_ScoreRequestUnicast ==
  [][ last'.op = "score_request" =>
        /\ \A s \in AllSockets :
             delivered'[s] = IF s = last'.arg THEN <<"score_update">> ELSE <<>>
        /\ \A g \in DOMAIN ACTIVE_GAMES : last'.scores = ACTIVE_GAMES[g].score_board
        /\ \A g \in DOMAIN active_games : last'.scores = cards_board(g)
        /\ ACTIVE_GAMES' = ACTIVE_GAMES
        /\ active_games' = active_games
        /\ score_boards' = score_boards
        /\ manager' = manager
        /\ ws' = ws
    ]_vars

\* C23, its case: with both players connected to a games.py session whose
\* scoreboard holds points, a player has just requested the scores.
C23_Witness ==
  \E g \in DOMAIN ACTIVE_GAMES :
    /\ last.op = "score_request"
    /\ \A s \in Sockets : ws[s] = "open" /\ s \in games_registered(ACTIVE_GAMES[g])
    /\ \E u \in DOMAIN ACTIVE_GAMES[g].score_board :
         ACTIVE_GAMES[g].score_board[u].grade > 0
    /\ delivered[last.arg] = <<"score_update">>

\* C24: a solo session is IN_PROGRESS at index 0 right after its creation,
\* its question list then holds exactly questions_limit card ids, all of the
\* chosen set and no one twice; and no later operation changes the question
\* list or the limit of a session.
C24_SoloListFixedAtCreation ==
  [][ /\ (last'.op = "solo_start" /\ last'.reply = "303") =>
           \A g \in DOMAIN active_games' \ DOMAIN active_games :
             LET game == active_games'[g] IN
             /\ game.is_solo
             /\ game.state = "IN_PROGRESS"
             /\ game.current_card_index = 0
             /\ Len(game.card_ids) = game.questions_limit
             /\ Range(game.card_ids) \subseteq db_cards
             /\ \A i, j \in 1..Len(game.card_ids) :
                  game.card_ids[i] = game.card_ids[j] => i = j
      /\ \A g \in DOMAIN active_games :
           /\ g \in DOMAIN active_games'
           /\ active_games'[g].card_ids = active_games[g].card_ids
           /\ active_games'[g].questions_limit = active_games[g].questions_limit
    ]_vars

\* C24, its case: a solo session of two questions that has been played to its
\* end, with points scored, still holds its two questions.
C24_Witness ==
  \E g \in SoloGames :
    /\ Len(active_games[g].card_ids) = 2
    /\ active_games[g].state = "FINISHED"
    /\ active_games[g].current_card_index >= 1
    /\ active_games[g].score > 0

\* C25: in a solo game played in order (every question answered once, then
\* 'next' with the current index) the running score is at every moment
\* 5.0 x (answers graded correct) + 2.5 x (answers graded half); the 'next'
\* after the last question has been answered replies 'finished', presents no
\* card, and leaves the game FINISHED with that score.
C25_SoloScoreAndFinish ==
  [][ \A g \in SoloGames :
        /\ active_games'[g].score
             = POINTS_CORRECT * graded'.correct + POINTS_HALF * graded'.half
        /\ ( /\ last'.op = "solo_next"
             /\ active_games[g].current_card_index = Len(active_games[g].card_ids) - 1 )
           => /\ last'.reply = "finished"
              /\ active_games'[g].state = "FINISHED"
              /\ active_games'[g].score = active_games[g].score
              /\ graded'.correct + graded'.half <= Len(active_games[g].card_ids)
    ]_vars

\* C25, its case: a solo game of two questions, one answered correctly and
\* one half, has just been finished by the 'next' after the last question.
C25_Witness ==
  \E g \in SoloGames :
    /\ Len(active_games[g].card_ids) = 2
    /\ graded = [correct |-> 1, half |-> 1]
    /\ active_games[g].state = "FINISHED"
    /\ last.op = "solo_next"
    /\ last.reply = "finished"

\* the words of a text, read off the text: the maximal runs of characters
\* that are not whitespace
WordsOf(t) ==
  { SubSeq(t, p[1], p[2]) :
      p \in { q \in (1..Len(t)) \X (1..Len(t)) :
                /\ q[1] <= q[2]
                /\ \A k \in q[1]..q[2] : ~IsSpace(t[k])
                /\ (q[1] = 1 \/ IsSpace(t[q[1] - 1]))
                /\ (q[2] = Len(t) \/ IsSpace(t[q[2] + 1])) } }

\* the reference rule on the normalized texts
ReferenceGrade(user_answer, correct_answer) ==
  LET nu     == games_normalize_text(user_answer)
      nc     == games_normalize_text(correct_answer)
      common == WordsOf(nc) \cap WordsOf(nu)
  IN  CASE nu = nc           -> "correct"
        [] nu # nc /\ WordsOf(nc) = {} -> "wrong"
        [] nu # nc /\ WordsOf(nc) # {}
             /\ common # {} /\ 2 * Cardinality(common) >= Cardinality(WordsOf(nc)) -> "half"
        [] OTHER             -> "wrong"

\* C26: on every pair of texts grade_answer returns what the reference rule
\* gives (correct when the normalized texts are equal; else wrong when the
\* reference has no words; else half when the common words are at least one
\* and at least half of the reference's words; else wrong), and the copies
\* of games.py and of cards.py return the same.
C26_GraderFollowsReferenceRule ==
  last.op = "grade_answer returned" =>
    /\ last.games = ReferenceGrade(last.user_answer, last.correct_answer)
    /\ last.cards = last.games

\* C26, its case: a reference of three words of which the answer has one,
\* graded wrong; the pair with two of the three is graded half.
C26_Witness ==
  /\ last.op = "grade_answer returned"
  /\ last.correct_answer = <<"a", " ", "b", " ", "x">>
  /\ last.user_answer = <<"A", "!">>
  /\ last.games = "wrong"
  /\ games_grade_answer(<<"a", " ", "b">>, last.correct_answer) = "half"

\* C27: for every reference answer that is not the empty text, both graders
\* return 'wrong' on the empty user answer.
C27_EmptyAnswerIsWrong ==
  ( /\ last.op = "grade_answer returned"
    /\ last.user_answer = <<>>
    /\ last.correct_answer # <<>> )
  => last.games = "wrong" /\ last.cards = "wrong"

\* C28: in games.py a session that is ACTIVE when a handler is suspended (and
\* so another handler can run) has its current_card set; an
\* answer_submission processed on an ACTIVE session is graded against that
\* card, or ignored as a repeat, and does not end the sender's handler.
C28_ActiveHasCardAtEveryAwait ==
  [][ \A g \in DOMAIN ACTIVE_GAMES :
        /\ ACTIVE_GAMES'[g].status = "ACTIVE" => ACTIVE_GAMES'[g].current_card # None
        /\ (last'.op = "answer_submission" /\ ACTIVE_GAMES[g].status = "ACTIVE") =>
             /\ last'.reply # "exception"
             /\ \A s \in AllSockets : ws[s] = "open" => ws'[s] = "open"
             /\ \/ last'.reply \in {"correct", "half", "wrong"}
                \/ last'.by \in ACTIVE_GAMES[g].answered_users
    ]_vars

\* C29: when the handler of an earlier connection observes its disconnect,
\* a handle that is registered for a socket which is still open (the newer
\* connection of the player who reconnected) stays registered, and in
\* games.py it receives the notice that is broadcast.
C29_StaleDisconnectKeepsNewHandle ==
  [][ last'.op = "disconnect" =>
        /\ \A g \in DOMAIN ACTIVE_GAMES :
             \A u \in DOMAIN ACTIVE_GAMES[g].active_connections :
               ws'[ACTIVE_GAMES[g].active_connections[u]] = "open" =>
                 /\ u \in DOMAIN ACTIVE_GAMES'[g].active_connections
                 /\ ACTIVE_GAMES'[g].active_connections[u]
                      = ACTIVE_GAMES[g].active_connections[u]
                 /\ delivered'[ACTIVE_GAMES[g].active_connections[u]] = <<"chat_message">>
        /\ \A g \in DOMAIN manager :
             \A i \in 1..Len(manager[g]) :
               ws'[manager[g][i].ws] = "open" =>
                 \E j \in 1..Len(manager'[g]) : manager'[g][j] = manager[g][i]
    ]_vars

\* C30: a socket whose handler has ended, through a disconnect it observed
\* (closed) or through any other exception (dead), is registered for no
\* session.
C30_EndedHandlerNotRegistered ==
  \A s \in AllSockets : ws[s] \in {"closed", "dead"} => ~Registered(s)

\* C31: a broadcast during which other sockets connect or disconnect is not
\* aborted by that (no send of its own having raised, it runs to completion),
\* and every socket that was registered when it began and is open when it
\* ends has received the message.
C31_FanOutSurvivesRegistryChange ==
  [][ ( /\ fanout.engine # "idle"
        /\ fanout'.engine = "idle"
        /\ last'.reply # "send raised" )
      => /\ last'.reply = "completed"
         /\ \A s \in fanout.began :
              ws'[s] = "open" => delivered'[s] = <<"chat_message">>
    ]_vars

\* the step is a game_control of the creator of the games.py session g that
\* is not left suspended in the broadcast of the start
GamesCreatorControl(g) ==
  /\ \A s \in AllSockets : pc'[s] # "start_game"
  /\ g \in DOMAIN ACTIVE_GAMES
  /\ g \in DOMAIN ACTIVE_GAMES'
  /\ ACTIVE_GAMES[g].max_questions >= 1
  /\ ACTIVE_GAMES'[g] # ACTIVE_GAMES[g]
  /\ last'.op = "game_control"
  /\ last'.by = ACTIVE_GAMES[g].creator_username

\* the step is a first start or a request_next_card of the creator of the
\* cards.py multiplayer session g
CardsCreatorControl(g) ==
  /\ g \in DOMAIN active_games
  /\ g \in DOMAIN active_games'
  /\ ~active_games[g].is_solo
  /\ active_games[g].questions_limit >= 1
  /\ active_games'[g] # active_games[g]
  /\ \/ last'.op = "start_game" /\ active_games[g].state = "WAITING"
     \/ last'.op = "game_control" /\ last'.arg = "request_next_card"

\* C32: while no card is deleted, the k-th question the creator's start and
\* request_next_card commands ask is emitted as a new_card event numbered k,
\* for k = 1..N in order, and the command after the N-th emits a finish event
\* and no card and leaves the session FINISHED.
C32_CardsNumberedOneToN ==
  [][ (db_cards = CardIds /\ db_cards' = CardIds) =>
        /\ \A g \in DOMAIN ACTIVE_GAMES :
             GamesCreatorControl(g) =>
               LET game == ACTIVE_GAMES[g] IN
               IF game.current_question_count < game.max_questions
               THEN /\ Emits(last', "new_card")
                    /\ "question_number" \in DOMAIN last'
                    /\ last'.question_number = game.current_question_count + 1
               ELSE /\ ~Emits(last', "new_card")
                    /\ \E e \in FinishEvents : Emits(last', e)
                    /\ ACTIVE_GAMES'[g].status = "FINISHED"
        /\ \A g \in DOMAIN active_games :
             CardsCreatorControl(g) =>
               LET game  == active_games[g]
                   asked == IF game.state = "WAITING" THEN 0
                            ELSE game.current_card_index + 1
               IN  IF asked < game.questions_limit
                   THEN /\ Emits(last', "new_card")
                        /\ "question_number" \in DOMAIN last'
                        /\ last'.question_number = asked + 1
                   ELSE /\ ~Emits(last', "new_card")
                        /\ \E e \in FinishEvents : Emits(last', e)
                        /\ active_games'[g].state = "FINISHED"
    ]_vars

\* the session g of games.py is under way, is over
GamesUnderWay(g) == g \in DOMAIN ACTIVE_GAMES /\ ACTIVE_GAMES[g].status = "ACTIVE"

GamesOver(g) == g \in DOMAIN ACTIVE_GAMES /\ ACTIVE_GAMES[g].status = "FINISHED"

\* the session g of cards.py is under way, is over
CardsUnderWay(g) == g \in DOMAIN active_games /\ active_games[g].state = "IN_PROGRESS"

CardsOver(g) == g \in DOMAIN active_games /\ active_games[g].state = "FINISHED"

\* the step is an advance request of the controller of a session under way:
\* it ends the session or moves it to a later question of its N questions
AdvanceStep ==
  /\ \A g \in DOMAIN ACTIVE_GAMES :
       ( /\ GamesUnderWay(g)
         /\ ACTIVE_GAMES'[g] # ACTIVE_GAMES[g]
         /\ last'.op = "game_control"
         /\ last'.by = ACTIVE_GAMES[g].creator_username )
       => \/ ACTIVE_GAMES'[g].status = "FINISHED"
          \/ /\ ACTIVE_GAMES'[g].current_question_count
                  = ACTIVE_GAMES[g].current_question_count + 1
             /\ ACTIVE_GAMES'[g].current_question_count <= ACTIVE_GAMES[g].max_questions
  /\ \A g \in DOMAIN active_games :
       ( /\ CardsUnderWay(g)
         /\ active_games'[g] # active_games[g]
         /\ last'.op \in {"game_control", "solo_next"}
         /\ last'.by = active_games[g].creator_id )
       => \/ active_games'[g].state = "FINISHED"
          \/ /\ active_games[g].current_card_index >= 0
             /\ active_games'[g].current_card_index > active_games[g].current_card_index
             /\ active_games'[g].current_card_index < active_games[g].questions_limit

LaterCards(card_ids, index) ==
  { j \in (index + 1)..(Len(card_ids) - 1) : card_ids[j + 1] \in db_cards }

\* C34: called on a position whose card has been deleted, get_current_card
\* leaves the index on the first later position whose card exists and returns
\* that card; whatever it is called on, it returns no deleted card, does not
\* move the index backwards and does not move it past the last position.
C34_SkipsToFirstExistingCard ==
  \A g \in DOMAIN active_games :
    LET card_ids == active_games[g].card_ids IN
    \A index \in 0..(Len(card_ids) - 1) :
      LET r     == get_current_card(card_ids, index)
          later == LaterCards(card_ids, index)
      IN  /\ r.card # None => r.card \in db_cards
          /\ r.index >= index
          /\ r.index <= Len(card_ids) - 1
          /\ (card_ids[index + 1] \notin db_cards /\ later # {}) =>
               /\ r.index \in later
               /\ \A j \in later : r.index <= j
               /\ r.card = card_ids[r.index + 1]

\* a page load has moved a session from its deleted first card to the second
C34_Witness ==
  \E g \in DOMAIN active_games :
    /\ last.op = "page"
    /\ active_games[g].state = "IN_PROGRESS"
    /\ Len(active_games[g].card_ids) = 2
    /\ active_games[g].card_ids[1] \notin db_cards
    /\ active_games[g].card_ids[2] \in db_cards
    /\ active_games[g].current_card_index = 1

\* C35: the current_card_index of a multiplayer session of cards.py changes
\* only in a start or a request_next_card of its creator; page loads and
\* answer submissions leave it alone, also after cards have been deleted.
C35_IndexMovedByCreatorOnly ==
  [][ \A g \in DOMAIN active_games :
        ( /\ g \in DOMAIN active_games'
          /\ ~active_games[g].is_solo
          /\ active_games'[g].current_card_index # active_games[g].current_card_index )
        => /\ last'.by = active_games[g].creator_id
           /\ \/ last'.op = "start_game"
              \/ last'.op = "game_control" /\ last'.arg = "request_next_card"
    ]_vars

\* C36: a solo next that succeeds leaves the index of the session one above
\* the index the session had, further only by the deleted cards it skipped,
\* whatever current_index the client posted: no question is skipped and none
\* comes back.
C36_SoloNextMovesByOne ==
  [][ \A g \in DOMAIN active_games :
        ( /\ g \in DOMAIN active_games'
          /\ active_games[g].is_solo
          /\ last'.op = "solo_next"
          /\ last'.reply = "success card" )
        => LET game      == active_games[g]
               index     == active_games'[g].current_card_index
           IN  /\ index > game.current_card_index
               /\ \A j \in (game.current_card_index + 1)..(index - 1) :
                    game.card_ids[j + 1] \notin db_cards
    ]_vars

\* C37: in games.py every player has at most as many scored answers, correct,
\* half and wrong together, as questions have been asked in the session.
C37_ScoredAtMostOncePerQuestion ==
  \A g \in DOMAIN ACTIVE_GAMES :
    \A u \in DOMAIN ACTIVE_GAMES[g].score_board :
      LET entry == ACTIVE_GAMES[g].score_board[u] IN
      entry.correct + entry.half + entry.wrong <= ACTIVE_GAMES[g].current_question_count

\* a player has been scored on each of two questions
C37_Witness ==
  \E g \in DOMAIN ACTIVE_GAMES :
    /\ ACTIVE_GAMES[g].current_question_count = 2
    /\ last.op = "answer_submission"
    /\ \E u \in DOMAIN ACTIVE_GAMES[g].score_board :
         LET entry == ACTIVE_GAMES[g].score_board[u] IN
         /\ u = last.by
         /\ entry.correct + entry.half + entry.wrong = 2

\* C38: the score of a solo session is never above the points of a correct
\* answer, 5.0, times its questions_limit.
C38_SoloScoreBounded ==
  \A g \in DOMAIN active_games :
    active_games[g].is_solo =>
      active_games[g].score <= POINTS_CORRECT * active_games[g].questions_limit

====
